---- MODULE Spec2Model ----
(***************************************************************************)
(* A model of idlearn's outline handling and section-text segmentation     *)
(* (src/app/text_extractor.py, class TextExtractor), of the cache of the   *)
(* pipeline (src/app/pipeline.py) and of the selection of the sections in  *)
(* the window (src/app/gui.py).                                            *)
(*                                                                         *)
(* Python values are modelled as follows.                                  *)
(*   - a string is a sequence of one-character strings; characters that    *)
(*     have no ASCII spelling carry a symbolic name ("SHY", "NBSP", ...);   *)
(*   - an outline entry of doc.get_toc() is <<level, title, page>>, an     *)
(*     entry of self.toc is <<level, title, start_page, end_page>>;        *)
(*   - None is the empty tuple;                                            *)
(*   - the result of a call is [err |-> "none", val |-> v] or              *)
(*     [err |-> <exception name>, val |-> None];                           *)
(*   - a nested dict keyed by outline entries is the sequence, in          *)
(*     insertion order, of its nodes [path |-> <<k1, ..., kn>>, page |-> p]*)
(*     where path lists the keys from the outermost dict inwards.          *)
(*   - a document is [toc, page_count] for the outline operations, which   *)
(*     read nothing else of it, and has besides these its format, the      *)
(*     height of its first page and the blocks of its pages for            *)
(*     text_extract.                                                       *)
(***************************************************************************)
EXTENDS Integers, Sequences, FiniteSets, TLC

VARIABLES
    doc,    \* the opened document, as the library reports it
    toc,    \* TextExtractor.toc, set by __init__ from get_toc()
    ret,    \* the last call made on the extractor and what it produced
    frames, \* the activations of text_extract or of Pipeline.run, innermost last
    app,    \* the IdlearnApp window with its metadata frame and its Pipeline
    disk    \* the cache file .cache/cache.json, None while there is none

vars == <<doc, toc, ret, frames, app, disk>>

(***************************************************************************)
(* Bounds of the outline universe.                                         *)
(***************************************************************************)
MaxLen == 3
MaxLevel == 3
MaxPage == 2

None == <<>>

Ok(v) == [err |-> "none", val |-> v]
Raise(e) == [err |-> e, val |-> None]

\* Titles an embedded outline may carry; the second one holds a carriage
\* return, which get_toc removes.
OutlineTitles == { <<"a">>, <<"b", "\r">> }

(***************************************************************************)
(* Generic sequence helpers.                                               *)
(***************************************************************************)
Min(S) == CHOOSE x \in S : \A y \in S : x <= y

Max(S) == CHOOSE x \in S : \A y \in S : x >= y

\* Does pat occur in s starting at position i?
OccursAt(s, pat, i) ==
    /\ i + Len(pat) - 1 <= Len(s)
    /\ \A k \in 1..Len(pat) : s[i + k - 1] = pat[k]

\* list.index(x): the position of the first element equal to x, 0 when absent
\* (Python raises ValueError there).
index(s, x) ==
    LET hits == { i \in 1..Len(s) : s[i] = x }
    IN IF hits = {} THEN 0 ELSE Min(hits)

\* re.sub(r'(pat)+', rep, s) for a literal, non-empty pat: every maximal run of
\* repetitions of pat, taken leftmost first, is replaced by rep.
RECURSIVE SkipRun(_, _, _)
SkipRun(s, pat, i) ==
    IF OccursAt(s, pat, i) THEN SkipRun(s, pat, i + Len(pat)) ELSE i

RECURSIVE SubRuns(_, _, _, _)
SubRuns(s, pat, rep, i) ==
    IF i > Len(s) THEN <<>>
    ELSE IF OccursAt(s, pat, i)
         THEN rep \o SubRuns(s, pat, rep, SkipRun(s, pat, i))
         ELSE <<s[i]>> \o SubRuns(s, pat, rep, i + 1)

(***************************************************************************)
(* TextExtractor.get_toc                                                   *)
(***************************************************************************)
UnicodeSpaces ==
    << "U2000", "U2001", "U2002", "U2003", "U2004", "U2005",
       "U2006", "U2007", "U2008", "U2009", "U200A" >>

\* The title clean-up of get_toc: carriage returns are dropped, then runs of
\* the three characters soft hyphen, no-break space, "]" are dropped, then
\* runs of the eleven Unicode spaces in a row become one space.
clean_title(title) ==
    SubRuns(SubRuns(SubRuns(title, <<"\r">>, <<>>, 1),
                    <<"SHY", "NBSP", "]">>, <<>>, 1),
            UnicodeSpaces, <<" ">>, 1)

\* The inner loop of get_toc: from position j on, the page of the first entry
\* whose level is <= level; end_page (the default) when the list runs out.
RECURSIVE look_ahead_lt(_, _, _, _)
look_ahead_lt(t, level, j, end_page) ==
    IF j > Len(t) THEN end_page
    ELSE IF t[j][1] < level THEN t[j][3]
    ELSE look_ahead_lt(t, level, j + 1, end_page)

RECURSIVE look_ahead(_, _, _, _)
look_ahead(t, level, j, end_page) ==
    IF j > Len(t) THEN end_page
    ELSE IF t[j][1] <= level THEN t[j][3]
    ELSE look_ahead(t, level, j + 1, end_page)

get_toc(d) ==
    [ i \in 1..Len(d.toc) |->
        << d.toc[i][1],
           clean_title(d.toc[i][2]),
           d.toc[i][3],
           look_ahead(d.toc, d.toc[i][1], i + 1, d.page_count) >> ]

(***************************************************************************)
(* TextExtractor.toc2dtoc                                                  *)
(***************************************************************************)
IsPrefix(p, q) == Len(p) <= Len(q) /\ SubSeq(q, 1, Len(p)) = p

RECURSIVE pop_while_lt(_, _)
pop_while_lt(stack, level) ==
    IF stack # <<>> /\ level < stack[Len(stack)].level
    THEN pop_while_lt(SubSeq(stack, 1, Len(stack) - 1), level)
    ELSE stack

\* while stack and level <= stack[-1][0]: stack.pop()
RECURSIVE pop_while(_, _)
pop_while(stack, level) ==
    IF stack # <<>> /\ level <= stack[Len(stack)].level
    THEN pop_while(SubSeq(stack, 1, Len(stack) - 1), level)
    ELSE stack

\* d[key] = {"_page": ..., "_sub": {}} on the dict that path names: a new key
\* is appended; an existing key keeps its place and loses what hung below it.
dict_set(nodes, path, key, page) ==
    LET p == Append(path, key)
        kept == SelectSeq(nodes, LAMBDA n : ~(IsPrefix(p, n.path) /\ n.path # p))
    IN IF \E i \in 1..Len(nodes) : nodes[i].path = p
       THEN [ i \in 1..Len(kept) |->
                IF kept[i].path = p THEN [path |-> p, page |-> page] ELSE kept[i] ]
       ELSE Append(nodes, [path |-> p, page |-> page])

\* One turn of the for loop of toc2dtoc on state st = [stack, nodes, err].
toc2dtoc_step(st, e) ==
    LET popped == pop_while(st.stack, e[1])
    IN IF st.err # "none" THEN st
       ELSE IF popped = <<>>
            THEN [st EXCEPT !.err = "IndexError", !.stack = popped]
            ELSE [ stack |-> Append(popped,
                                    [level |-> e[1],
                                     path |-> Append(popped[Len(popped)].path, e)]),
                   nodes |-> dict_set(st.nodes, popped[Len(popped)].path, e,
                                      <<e[3], e[4]>>),
                   err |-> "none" ]

RECURSIVE toc2dtoc_loop(_, _, _)
toc2dtoc_loop(t, i, st) ==
    IF i > Len(t) THEN st
    ELSE toc2dtoc_loop(t, i + 1, toc2dtoc_step(st, t[i]))

\* The sentinel root is (0, root); the root dict is named by the empty path.
toc2dtoc_build(t) ==
    toc2dtoc_loop(t, 1, [ stack |-> << [level |-> 0, path |-> <<>>] >>,
                          nodes |-> <<>>,
                          err |-> "none" ])

HasSub(nodes, p) == \E i \in 1..Len(nodes) : Len(nodes[i].path) = Len(p) + 1
                                             /\ IsPrefix(p, nodes[i].path)

\* cleanup: a key with sub-entries keeps only them, a key without keeps its
\* page pair.
cleanup(nodes) ==
    [ i \in 1..Len(nodes) |->
        IF HasSub(nodes, nodes[i].path)
        THEN [path |-> nodes[i].path, page |-> None]
        ELSE nodes[i] ]

toc2dtoc(t) ==
    LET b == toc2dtoc_build(t)
    IN IF b.err # "none" THEN Raise(b.err) ELSE Ok(cleanup(b.nodes))

\* The keys of the dict that path names, in insertion order.
dict_keys(nodes, path) ==
    LET sel == SelectSeq(nodes, LAMBDA n : Len(n.path) = Len(path) + 1
                                           /\ IsPrefix(path, n.path))
    IN [ i \in 1..Len(sel) |-> sel[i].path[Len(sel[i].path)] ]

(***************************************************************************)
(* TextExtractor.get_parent                                                *)
(***************************************************************************)
\* The for loop of get_parent over the items of the outermost dict. Every
\* value cleanup produces is a dict, so a key other than section reaches the
\* recursive call, which names get_parent as a bare (module-level) name:
\* there is no such name, and evaluating it raises NameError.
RECURSIVE get_parent_loop(_, _, _, _)
get_parent_loop(keys, i, section, parent) ==
    IF i > Len(keys) THEN Ok(None)
    ELSE IF keys[i] = section THEN Ok(parent)
    ELSE Raise("NameError")

get_parent(t, section, parent) ==
    LET dtoc == toc2dtoc(t)
    IN IF dtoc.err # "none" THEN dtoc
       ELSE get_parent_loop(dict_keys(dtoc.val, <<>>), 1, section, parent)

(***************************************************************************)
(* TextExtractor.get_children                                              *)
(***************************************************************************)
\* for sec in self.toc[self.toc.index(section)+1:], j the position of sec.
RECURSIVE get_children_loop_all(_, _, _, _)
get_children_loop_all(t, j, level, subsections) ==
    IF j > Len(t) THEN subsections
    ELSE get_children_loop_all(t, j + 1, level, Append(subsections, t[j]))

RECURSIVE get_children_loop(_, _, _, _)
get_children_loop(t, j, level, subsections) ==
    IF j > Len(t) THEN subsections
    ELSE IF t[j][1] > level
         THEN get_children_loop(t, j + 1, level, Append(subsections, t[j]))
    ELSE IF t[j][1] = level THEN subsections
    ELSE get_children_loop(t, j + 1, level, subsections)

get_children(t, section) ==
    IF index(t, section) = 0 THEN Raise("ValueError")
    ELSE Ok(get_children_loop(t, index(t, section) + 1, section[1], <<>>))

(***************************************************************************)
(* TextExtractor.get_next_section                                          *)
(***************************************************************************)
RECURSIVE get_next_section_loop(_, _, _)
get_next_section_loop(t, j, level) ==
    IF j > Len(t) THEN None
    ELSE IF t[j][1] <= level THEN t[j]
    ELSE get_next_section_loop(t, j + 1, level)

get_next_section(t, section) ==
    IF index(t, section) = 0 THEN Raise("ValueError")
    ELSE Ok(get_next_section_loop(t, index(t, section) + 1, section[1]))

(***************************************************************************)
(* Characters and regular expressions (module re).                         *)
(*                                                                         *)
(* A pattern is a tree: [t |-> "set", s |-> S] matches one character of S, *)
(* "lit" a literal string, "any" the dot, "seq" its parts in a row, "opt"   *)
(* x?, "plus" x+, "end" the $ anchor. Ends lists, in the order the backtracking matcher   *)
(* tries them (greedy first), the positions where a match that starts at i *)
(* can end; the first one is the match re finds.                           *)
(***************************************************************************)
UpperCase ==
    << "A", "B", "C", "D", "E", "F", "G", "H", "I", "J", "K", "L", "M",
       "N", "O", "P", "Q", "R", "S", "T", "U", "V", "W", "X", "Y", "Z" >>

LowerCase ==
    << "a", "b", "c", "d", "e", "f", "g", "h", "i", "j", "k", "l", "m",
       "n", "o", "p", "q", "r", "s", "t", "u", "v", "w", "x", "y", "z" >>

Range(f) == { f[i] : i \in DOMAIN f }

AZ == Range(UpperCase)

az == Range(LowerCase)

Digit == { "0", "1", "2", "3", "4", "5", "6", "7", "8", "9" }

\* \s, and what str.strip() removes.
Space == { " ", "\t", "\n", "\r", "\f", "NBSP" } \cup Range(UnicodeSpaces)

\* \w: letters (the ligatures are letters), digits and the underscore.
Word == AZ \cup az \cup Digit \cup { "_", "LIG_FI", "LIG_FL" }

Set(S) == [t |-> "set", s |-> S]

Lit(str) == [t |-> "lit", s |-> str]

Seq_(xs) == [t |-> "seq", xs |-> xs]

Opt(x) == [t |-> "opt", x |-> x]

\* x|y, x tried first
Alt(x, y) == [t |-> "alt", x |-> x, y |-> y]

Plus(x) == [t |-> "plus", x |-> x]

End == [t |-> "end"]

\* The dot: any character but a line feed.
Dot == [t |-> "any"]

Star(x) == Opt(Plus(x))

RECURSIVE Flatten(_)
Flatten(ss) == IF ss = <<>> THEN <<>> ELSE Head(ss) \o Flatten(Tail(ss))

RECURSIVE Ends(_, _, _)
Ends(re, s, i) ==
    CASE re.t = "set" ->
           IF i <= Len(s) /\ s[i] \in re.s THEN <<i + 1>> ELSE <<>>
      [] re.t = "any" ->
           IF i <= Len(s) /\ s[i] # "\n" THEN <<i + 1>> ELSE <<>>
      [] re.t = "lit" ->
           IF OccursAt(s, re.s, i) THEN <<i + Len(re.s)>> ELSE <<>>
      [] re.t = "end" ->
           IF i = Len(s) + 1 \/ (i = Len(s) /\ s[i] = "\n") THEN <<i>> ELSE <<>>
      [] re.t = "opt" -> Ends(re.x, s, i) \o <<i>>
      [] re.t = "alt" -> Ends(re.x, s, i) \o Ends(re.y, s, i)
      [] re.t = "plus" ->
           LET first == Ends(re.x, s, i)
           IN Flatten([ k \in 1..Len(first) |->
                          (IF first[k] > i THEN Ends(re, s, first[k]) ELSE <<>>)
                          \o <<first[k]>> ])
      [] re.t = "seq" ->
           IF re.xs = <<>> THEN <<i>>
           ELSE LET first == Ends(Head(re.xs), s, i)
                IN Flatten([ k \in 1..Len(first) |->
                               Ends(Seq_(Tail(re.xs)), s, first[k]) ])

\* re.match(re, s)
Match(re, s) == Ends(re, s, 1) # <<>>

\* re.sub(re, rep, s), for patterns that match no empty string.
RECURSIVE SubFrom(_, _, _, _)
SubFrom(re, rep, s, i) ==
    IF i > Len(s) THEN <<>>
    ELSE IF Ends(re, s, i) # <<>> /\ Head(Ends(re, s, i)) > i
         THEN rep \o SubFrom(re, rep, s, Head(Ends(re, s, i)))
         ELSE <<s[i]>> \o SubFrom(re, rep, s, i + 1)

Sub(re, rep, s) == SubFrom(re, rep, s, 1)

\* str.strip(chars)
RECURSIVE LStrip(_, _)
LStrip(s, chars) ==
    IF s # <<>> /\ Head(s) \in chars THEN LStrip(Tail(s), chars) ELSE s

RECURSIVE RStrip(_, _)
RStrip(s, chars) ==
    IF s # <<>> /\ s[Len(s)] \in chars
    THEN RStrip(SubSeq(s, 1, Len(s) - 1), chars)
    ELSE s

Strip(s, chars) == LStrip(RStrip(s, chars), chars)

\* str.lower()
ToLower(c) ==
    IF c \in AZ THEN LowerCase[CHOOSE i \in 1..26 : UpperCase[i] = c] ELSE c

lower(s) == [ i \in 1..Len(s) |-> ToLower(s[i]) ]

\* s[-1] and s[0]: IndexError on the empty string is the caller's to raise.
Last(s) == s[Len(s)]

(***************************************************************************)
(* TextExtractor.get_span                                                  *)
(*                                                                         *)
(* A span is [text, font, size]; a line is the sequence of its spans. Font *)
(* names are strings; sizes are in tenths of a point.                      *)
(***************************************************************************)
Ligatures == { "LIG_FI", "LIG_FL", "EMDASH" }

\* r'\+.*'
re_subset_tag == Seq_(<< Lit(<<"+">>), Star(Dot) >>)

\* r'[\s\t]+$'
re_blank == Seq_(<< Plus(Set(Space)), End >>)

\* r'.*(\\xa[d0])+.*': a backslash, "x", "a" and "d" or "0", spelled out.
re_escaped_xa ==
    Seq_(<< Star(Dot),
            Plus(Seq_(<< Lit(<<"\\", "x", "a">>), Set({"d", "0"}) >>)),
            Star(Dot) >>)

\* r'(\\u200[0-9a])+': a backslash, "u200" and a digit or "a", spelled out.
re_escaped_u200 ==
    Plus(Seq_(<< Lit(<<"\\", "u", "2", "0", "0">>), Set(Digit \cup {"a"}) >>))

\* r'.*(\\u200[0-9a])+.*'
re_escaped_u200_line == Seq_(<< Star(Dot), re_escaped_u200, Star(Dot) >>)

\* r"(([A-Z]+\s)+)?[A-Z]$"
re_abbreviation ==
    Seq_(<< Opt(Plus(Seq_(<< Plus(Set(AZ)), Set(Space) >>))), Set(AZ), End >>)

\* r"[A-Z]+$"
re_acronym == Seq_(<< Plus(Set(AZ)), End >>)

\* r"(\s)?[...]$" with the two ligatures and the em dash between the brackets
re_ligature_span ==
    Seq_(<< Opt(Set(Space)), Set(Ligatures), Opt(Set(Space)), End >>)

\* r"[...]$" with the same three characters
re_ligature_end == Seq_(<< Set(Ligatures), End >>)

\* r"^\s[A-Z]$"
re_space_capital == Seq_(<< Set(Space), Set(AZ), End >>)

\* r'(;\s)?\[\s(\d(\s,\s+)?)+\s\]'
re_citation ==
    Seq_(<< Opt(Seq_(<< Lit(<<";">>), Set(Space) >>)),
            Lit(<<"[">>), Set(Space),
            Plus(Seq_(<< Set(Digit),
                         Opt(Seq_(<< Set(Space), Lit(<<",">>), Plus(Set(Space)) >>)) >>)),
            Set(Space), Lit(<<"]">>) >>)

\* r'(;\s)?\[\s\d+\s-\s\d+\s\]', the dash being an en dash
re_citation_range ==
    Seq_(<< Opt(Seq_(<< Lit(<<";">>), Set(Space) >>)),
            Lit(<<"[">>), Set(Space), Plus(Set(Digit)), Set(Space),
            Lit(<<"ENDASH">>), Set(Space), Plus(Set(Digit)), Set(Space),
            Lit(<<"]">>) >>)

\* What line 156 and line 158 write back into a span of the line.
span_font(s) == Sub(re_subset_tag, <<>>, s.font)

span_text(s) ==
    IF Match(re_blank, s.text) THEN s.text
    ELSE Sub(re_escaped_u200_line, <<" ">>, Sub(re_escaped_xa, <<>>, s.text))

\* One turn of the for loop of get_span. st = [spans, span, err]: span is the
\* accumulator, <<>> while it is still the empty dict, else <<the dict>>.
get_span_step(st, s0) ==
    LET s == [text |-> span_text(s0), font |-> span_font(s0), size |-> s0.size]
        span == st.span[1]
    IN IF st.err # "none" \/ Match(re_blank, s0.text) THEN st
       ELSE IF st.span = <<>> THEN [st EXCEPT !.span = <<s>>]
       ELSE IF Match(re_abbreviation,
                     Strip(span.text, {" ", ",", ".", ":", "?", "!"}))
            THEN [st EXCEPT !.span = << [text |-> span.text \o s.text,
                                         font |-> s.font, size |-> s.size] >>]
       ELSE IF span.font # s.font \/ span.size # s.size
            THEN IF Match(re_acronym, s.text)
                 THEN [st EXCEPT !.span =
                          << [span EXCEPT !.text = span.text \o <<" ">> \o s.text] >>]
                 ELSE [st EXCEPT !.spans = Append(st.spans, span), !.span = <<s>>]
       ELSE IF Match(re_ligature_span, s.text)
            THEN [st EXCEPT !.span = << [span EXCEPT !.text = span.text \o s.text] >>]
       ELSE IF span.text = <<>> THEN [st EXCEPT !.err = "IndexError"]
       ELSE IF Match(re_ligature_end, <<Last(span.text)>>)
            THEN [st EXCEPT !.span = << [span EXCEPT !.text = span.text \o s.text] >>]
       ELSE IF s.text = <<>> THEN [st EXCEPT !.err = "IndexError"]
       ELSE IF \/ " " \in {s.text[1], Last(span.text)}
               \/ /\ Len(span.text) > 1
                  /\ Match(re_space_capital,
                           SubSeq(span.text, Len(span.text) - 1, Len(span.text)))
            THEN [st EXCEPT !.span = << [span EXCEPT !.text = span.text \o s.text] >>]
       ELSE [st EXCEPT !.span =
                << [span EXCEPT !.text = span.text \o <<" ">> \o s.text] >>]

\* The loop taking the spans from the last to the first.
RECURSIVE get_span_loop_backwards(_, _, _)
get_span_loop_backwards(line, k, st) ==
    IF k > Len(line) THEN st
    ELSE get_span_step(get_span_loop_backwards(line, k + 1, st), line[k])

RECURSIVE get_span_loop(_, _, _)
get_span_loop(line, k, st) ==
    IF k > Len(line) THEN st
    ELSE get_span_loop(line, k + 1, get_span_step(st, line[k]))

\* The line as get_span leaves it behind: it rewrites the spans in place, up
\* to and including the span at which it raised, if it did.
rewritten(line) ==
    LET none == [spans |-> <<>>, span |-> <<>>, err |-> "none"]
        raised == { k \in 1..Len(line) :
                      get_span_loop(SubSeq(line, 1, k), 1, none).err # "none" }
        last == IF raised = {} THEN Len(line)
                ELSE CHOOSE k \in raised : \A j \in raised : k <= j
    IN [ k \in 1..Len(line) |->
           IF k > last THEN line[k]
           ELSE [text |-> span_text(line[k]), font |-> span_font(line[k]),
                 size |-> line[k].size] ]

\* The second loop of get_span, over the merged spans.
clean_span_text(text) ==
    LET t1 == Strip(text, Space)
        t2 == Sub(re_escaped_u200, <<" ">>, t1)
        t3 == Sub(re_citation, <<>>, t2)
        t4 == Sub(re_citation_range, <<>>, t3)
        t5 == Sub(Seq_(<< Lit(<<"(">>), Set(Space) >>), <<"(">>, t4)
        t6 == Sub(Seq_(<< Set(Space), Lit(<<")">>) >>), <<")">>, t5)
        t7 == Sub(Plus(Set(Space)), <<" ">>, t6)
        t8 == Sub(Lit(<<"LIG_FI">>), <<"f", "i">>, t7)
    IN Sub(Lit(<<"LIG_FL">>), <<"f", "l">>, t8)

get_span(line) ==
    LET st == get_span_loop(line, 1, [spans |-> <<>>, span |-> <<>>, err |-> "none"])
        spans == st.spans \o st.span
    IN IF st.err # "none" THEN Raise(st.err)
       ELSE Ok([ k \in 1..Len(spans) |->
                   [spans[k] EXCEPT !.text = clean_span_text(spans[k].text)] ])

(***************************************************************************)
(* TextExtractor.info_extract, get_main_size and get_main_font             *)
(*                                                                         *)
(* A page is the sequence of its blocks; a block is                        *)
(* [type, y0, y1, lines], y0 and y1 being bbox[1] and bbox[3] and an image *)
(* block (type 1) having no lines.                                         *)
(***************************************************************************)
\* The spans of the document in reading order that do not begin with white
\* space (r'[\s\t]+' is matched at the start of the text only).
counted_spans(pages) ==
    LET of_line(line) == SelectSeq(line, LAMBDA s : ~Match(Plus(Set(Space)), s.text))
        of_block(b) == Flatten([ l \in 1..Len(b.lines) |-> of_line(b.lines[l]) ])
        of_page(p) == Flatten([ b \in 1..Len(p) |-> of_block(p[b]) ])
    IN Flatten([ p \in 1..Len(pages) |-> of_page(pages[p]) ])

\* round() of a size given in tenths of a point, in points: halves go to the
\* even neighbour.
round(tenths) ==
    LET q == tenths \div 10
        r == tenths % 10
    IN IF r < 5 \/ (r = 5 /\ q % 2 = 0) THEN q ELSE q + 1

\* Counter(xs).most_common(): the distinct elements with their counts, the
\* most frequent first and, among equally frequent ones, the first seen first.
RECURSIVE most_common_from(_, _)
most_common_from(xs, left) ==
    IF left = {} THEN <<>>
    ELSE LET count(x) == Cardinality({ i \in 1..Len(xs) : xs[i] = x })
             top == CHOOSE x \in left :
                      \A y \in left :
                         \/ count(x) > count(y)
                         \/ count(x) = count(y) /\ index(xs, x) <= index(xs, y)
         IN << <<top, count(top)>> >> \o most_common_from(xs, left \ {top})

most_common(xs) == most_common_from(xs, Range(xs))

get_main_size(d) ==
    LET spans == counted_spans(d.pages)
        font_sizes == [ i \in 1..Len(spans) |-> round(spans[i].size) ]
        dominant_size == most_common(font_sizes)
    IN IF Len(dominant_size) < 2 THEN Raise("IndexError")
       ELSE IF /\ dominant_size[2][1] > dominant_size[1][1]
               /\ 2 * dominant_size[2][2] > dominant_size[1][1]
            THEN Ok(dominant_size[2][1])
            ELSE Ok(dominant_size[1][1])

get_main_font(d) ==
    LET spans == counted_spans(d.pages)
        fonts == [ i \in 1..Len(spans) |-> spans[i].font ]
    IN IF fonts = <<>> THEN Raise("IndexError")
       ELSE Ok(most_common(fonts)[1][1])

\* The frame height, in points.
PFRAME == 50

\* info_extract, with the first page's height read from the extractor's own
\* document (the body names a doc that is not in scope).
info_extract(d) ==
    LET main_size == get_main_size(d)
        main_font == get_main_font(d)
    IN IF d.pages = <<>> THEN Raise("IndexError")
       ELSE IF main_size.err # "none" THEN main_size
       ELSE IF main_font.err # "none" THEN main_font
       ELSE Ok([pheight |-> d.pheight, pframe |-> PFRAME,
                main_size |-> main_size.val, main_font |-> main_font.val])

(***************************************************************************)
(* TextExtractor.text_extract: the tests it applies to a line's first span *)
(* and the text it accumulates.                                            *)
(***************************************************************************)
Punctuation == { " ", ",", ".", ":", "?", "!" }

remove(s, chars) == SelectSeq(s, LAMBDA c : c \notin chars)

\* re.sub(r'[ ,.:?!]', '', text.lower().strip()), applied to a span's text
squeeze_span(text) == remove(Strip(lower(text), Space), Punctuation)

\* re.sub(r'[ ,.:?!]', '', title.lower()), applied to an outline title
squeeze_title(title) == remove(lower(title), Punctuation)

\* re.search(re.escape(a), b): a occurs in b; the empty a occurs everywhere.
occurs_in(a, b) == \E i \in 1..(Len(b) + 1) : OccursAt(b, a, i)

\* The two-way containment test of lines 271-274, 287-290, 300-303, 311-314.
title_matches(text, title) ==
    \/ occurs_in(squeeze_span(text), squeeze_title(title))
    \/ occurs_in(squeeze_title(title), squeeze_span(text))

\* r'\s?\d+\s?$'
re_folio == Seq_(<< Opt(Set(Space)), Plus(Set(Digit)), Opt(Set(Space)), End >>)

is_references(text) ==
    Strip(lower(text), Space) \in
        { <<"r", "e", "f", "e", "r", "e", "n", "c", "e", "s">>,
          <<"b", "i", "b", "l", "i", "o", "g", "r", "a", "p", "h", "y">> }

\* Lines 337-344: the spans of a line appended to value[0].
RECURSIVE accumulate(_, _, _, _)
accumulate(text, spans, k, main_size) ==
    IF k > Len(spans) THEN text
    ELSE LET span == spans[k]
             next == IF Match(re_folio, span.text) /\ span.size < 10 * main_size
                     THEN text
                     ELSE IF (Len(text) > 1 /\ Last(text) = "-") \/ Len(text) = 0
                          THEN Strip(text, Space) \o span.text
                          ELSE Strip(text, Space) \o <<" ">> \o span.text
         IN accumulate(next, spans, k + 1, main_size)

\* re.sub(r'\s+([.,:?!]([A-Z]))', r'\1 \2', text): white space before a
\* punctuation mark that a capital follows is replaced by the mark, the
\* capital, a space and the capital again.
RECURSIVE respace_from(_, _)
respace_from(s, i) ==
    IF i > Len(s) THEN <<>>
    ELSE LET ends == Ends(Seq_(<< Plus(Set(Space)),
                                  Set({".", ",", ":", "?", "!"}),
                                  Set(AZ) >>), s, i)
         IN IF ends # <<>>
            THEN LET e == Head(ends)
                 IN <<s[e - 2], s[e - 1], " ", s[e - 1]>> \o respace_from(s, e)
            ELSE <<s[i]>> \o respace_from(s, i + 1)

\* re.sub(r'^[a-z]+(\.)?\s?(\w+)', r'\2', text): the text from where the
\* second group begins in the match the engine finds first.
drop_lowercase_start(text) ==
    LET starts == Ends(Seq_(<< Plus(Set(az)), Opt(Lit(<<".">>)), Opt(Set(Space)) >>),
                       text, 1)
        good == { k \in 1..Len(starts) :
                    starts[k] <= Len(text) /\ text[starts[k]] \in Word }
    IN IF good = {} THEN text
       ELSE SubSeq(text, starts[Min(good)], Len(text))

\* Lines 348-353: what follows each block once the title has been found.
tidy(text) ==
    LET t1 == Sub(Seq_(<< Set({"SHY", "NBSP"}), Set(Space) >>), <<>>, text)
        t2 == respace_from(t1, 1)
        t3 == IF OccursAt(t2, <<".", " ">>, 1) THEN SubSeq(t2, 3, Len(t2)) ELSE t2
    IN drop_lowercase_start(t3)

(***************************************************************************)
(* The documents and the calls of the outline specification.               *)
(***************************************************************************)
\* The outlines doc.get_toc() may report, of at most MaxLen entries with
\* levels up to MaxLevel: those whose entries differ in level and page (one
\* title throughout), and those whose entries differ in level and title (all
\* on page 1). Levels need not start at 1 nor grow by single steps, and pages
\* need not grow along the outline or stay within the document.
PagedEntries == (1..MaxLevel) \X { <<"a">> } \X (1..MaxPage)

TitledEntries == (1..MaxLevel) \X OutlineTitles \X {1}

RawTocs ==
    UNION { [1..n -> PagedEntries] \cup [1..n -> TitledEntries] : n \in 0..MaxLen }

NoCall == [op |-> "none", pos |-> 0, arg |-> None, out |-> Ok(None)]

Init ==
    /\ doc \in [toc : RawTocs, page_count : 1..MaxPage]
    /\ toc = get_toc(doc)
    /\ ret = NoCall
    /\ frames = <<>>
    /\ app = <<>>
    /\ disk = <<>>

Call_get_toc ==
    /\ ret = NoCall
    /\ ret' = [op |-> "get_toc", pos |-> 0, arg |-> None, out |-> Ok(get_toc(doc))]
    /\ UNCHANGED <<app, disk, doc, toc, frames>>

Call_toc2dtoc ==
    /\ ret = NoCall
    /\ ret' = [op |-> "toc2dtoc", pos |-> 0, arg |-> None, out |-> toc2dtoc(toc)]
    /\ UNCHANGED <<app, disk, doc, toc, frames>>

\* The calls read the extractor and leave it as it is, so one call per
\* behaviour reaches every state a sequence of calls would.
\* The callers hand over an entry taken from self.toc; pos is where they took
\* it from, the callee sees only its value.
Call_get_parent ==
    \E i \in 1..Len(toc) :
        /\ ret = NoCall
        /\ ret' = [op |-> "get_parent", pos |-> i, arg |-> toc[i],
                   out |-> get_parent(toc, toc[i], None)]
        /\ UNCHANGED <<app, disk, doc, toc, frames>>

Call_get_children ==
    \E i \in 1..Len(toc) :
        /\ ret = NoCall
        /\ ret' = [op |-> "get_children", pos |-> i, arg |-> toc[i],
                   out |-> get_children(toc, toc[i])]
        /\ UNCHANGED <<app, disk, doc, toc, frames>>

Call_get_next_section ==
    \E i \in 1..Len(toc) :
        /\ ret = NoCall
        /\ ret' = [op |-> "get_next_section", pos |-> i, arg |-> toc[i],
                   out |-> get_next_section(toc, toc[i])]
        /\ UNCHANGED <<app, disk, doc, toc, frames>>

Next ==
    \/ Call_get_toc
    \/ Call_toc2dtoc
    \/ Call_get_parent
    \/ Call_get_children
    \/ Call_get_next_section

Spec == Init /\ [][Next]_vars

(***************************************************************************)
(* TextExtractor.text_extract                                              *)
(*                                                                         *)
(* The body of text_extract is taken as the method of TextExtractor that   *)
(* its self parameter and its recursive call self.text_extract(...) make   *)
(* it, and lines 215-216 as binding the results of info_extract() and      *)
(* toc2dtoc(). Each activation is a frame: the locals of the body and pc,  *)
(* the place where the activation stands. An exception leaves              *)
(* the body through every activation, no frame catches it: the call is     *)
(* then over (ret.out names the exception) and the frames stay as they     *)
(* were when it was raised.                                                *)
(*                                                                         *)
(* main_text is the sequence, in insertion order, of its items             *)
(* [key, value]; value is << >> for the empty list and else the text of    *)
(* value[0] followed by the dicts appended to it. The empty string is the  *)
(* empty sequence.                                                         *)
(***************************************************************************)
Running == [err |-> "running", val |-> None]

\* d[k] = v on a dict: a key already there keeps its place.
setitem(d, k, v) ==
    IF \E i \in 1..Len(d) : d[i].key = k
    THEN [ i \in 1..Len(d) |-> IF d[i].key = k THEN [key |-> k, value |-> v] ELSE d[i] ]
    ELSE Append(d, [key |-> k, value |-> v])

\* The locals on entry (line 213), before the body has run.
new_frame(sections, num_block) ==
    [ pc |-> "enter", sections |-> sections, num_block |-> num_block,
      info |-> [pheight |-> 0, pframe |-> 0, main_size |-> 0, main_font |-> <<>>],
      dtoc |-> <<>>, main_text |-> <<>>,
      si |-> 1, section |-> None, next_section |-> None, subsections |-> <<>>,
      key |-> <<>>, value |-> <<>>, aliased |-> FALSE,
      pblocks |-> <<>>, pi |-> 1, bi |-> 1, li |-> 1,
      skip |-> FALSE, stop |-> FALSE, flag |-> FALSE ]

top == frames[Len(frames)]

\* The frames with the innermost one replaced.
with_top(f) == [frames EXCEPT ![Len(frames)] = f]

\* The step of the innermost activation ends in the frame f.
goes_on(f) ==
    /\ frames' = with_top(f)
    /\ UNCHANGED <<app, disk, doc, toc, ret>>

\* The step of the innermost activation raises e.
raises(e) ==
    /\ ret' = [ret EXCEPT !.out = Raise(e)]
    /\ UNCHANGED <<app, disk, doc, toc, frames>>

\* value[0] = text. Once main_text[key] has been bound to the list (line 347)
\* the dict sees what is written into the list.
write_value(f, value) ==
    [f EXCEPT !.value = value,
              !.main_text = IF f.aliased THEN setitem(@, f.key, value) ELSE @]

\* self.doc.load_page(i - 1) for i in range(start_page, end_page + 1): the
\* blocks of the pages, or the number of the first page the document lacks.
load_pages(d, start_page, end_page) ==
    LET lacking == { i \in start_page..end_page : i < 1 \/ i > Len(d.pages) }
    IN IF lacking # {} THEN Raise("ValueError")
       ELSE Ok([ k \in 1..(end_page - start_page + 1) |-> d.pages[start_page + k - 1] ])

\* (parent in sections) and (parent is not None), line 229: parent is what
\* get_parent handed back, the dict passed to it or None, and the sections
\* are tuples, which no dict and no None equals.
parent_requested(parent, sections) ==
    LET type == IF parent = None THEN "NoneType" ELSE "dict"
    IN /\ \E k \in 1..Len(sections) : type = "tuple" /\ sections[k] = parent
       /\ type # "NoneType"

\* A caller asks for the sections at the given places of self.toc.
Call_text_extract(places) ==
    /\ ret = NoCall
    /\ ret' = [op |-> "text_extract", pos |-> places,
               arg |-> [ k \in 1..Len(places) |-> toc[places[k]] ],
               out |-> Running]
    /\ frames' = << new_frame([ k \in 1..Len(places) |-> toc[places[k]] ], 0) >>
    /\ UNCHANGED <<app, disk, doc, toc>>

\* Lines 215-218.
Enter ==
    /\ ret.out = Running /\ frames # <<>> /\ top.pc = "enter"
    /\ LET info == info_extract(doc)
           dtoc == toc2dtoc(toc)
       IN IF info.err # "none" THEN raises(info.err)
          ELSE IF dtoc.err # "none" THEN raises(dtoc.err)
          ELSE goes_on([top EXCEPT !.pc = "section", !.info = info.val,
                                   !.dtoc = dtoc.val])

\* Lines 220-241: the head of the loop over the sections, up to the loop over
\* the pages; past the last section, line 357.
SectionStep ==
    /\ ret.out = Running /\ frames # <<>> /\ top.pc = "section"
    /\ IF top.si > Len(top.sections) THEN goes_on([top EXCEPT !.pc = "return"])
       ELSE LET section == top.sections[top.si]
                parent == get_parent(toc, section, top.dtoc)
                next_section == get_next_section(toc, section)
                subsections == get_children(toc, section)
                pblocks == load_pages(doc, section[3], section[4])
            IN IF parent.err # "none" THEN raises(parent.err)
               ELSE IF next_section.err # "none" THEN raises(next_section.err)
               ELSE IF subsections.err # "none" THEN raises(subsections.err)
               ELSE IF parent_requested(parent.val, top.sections)
                    THEN goes_on([top EXCEPT !.si = @ + 1,
                                             !.section = section,
                                             !.next_section = next_section.val,
                                             !.subsections = subsections.val])
               ELSE IF pblocks.err # "none" THEN raises(pblocks.err)
               ELSE goes_on([top EXCEPT !.pc = "page",
                                        !.section = section,
                                        !.next_section = next_section.val,
                                        !.subsections = subsections.val,
                                        !.key = <<>>, !.value = <<>>,
                                        !.aliased = FALSE,
                                        !.pblocks = pblocks.val, !.pi = 1,
                                        !.skip = FALSE, !.stop = FALSE,
                                        !.flag = FALSE])

\* Lines 243-248: the head of the loop over the pages of the section.
PageStep ==
    /\ ret.out = Running /\ frames # <<>> /\ top.pc = "page"
    /\ IF top.pi > Len(top.pblocks) \/ top.stop
       THEN goes_on([top EXCEPT !.pc = "section", !.si = @ + 1])
       ELSE LET blocks == top.pblocks[top.pi]
                num_block == IF index(top.pblocks, blocks) - 1 > 0 THEN 0
                             ELSE top.num_block
            IN goes_on([top EXCEPT !.pc = "block", !.skip = FALSE,
                                   !.num_block = num_block,
                                   !.bi = num_block + 1])

\* The test with the places of the block left out of it.
scanned_anywhere(block, info, format) ==
    \/ occurs_in(<<"p", "d", "f">>, format)
    \/ occurs_in(<<"e", "p", "u", "b">>, format)

\* Lines 251-252: the test on the format and on the block's place on the
\* page; format is self.doc.metadata["format"].lower().
scanned(block, info, format) ==
    \/ /\ occurs_in(<<"p", "d", "f">>, format)
       /\ block.y0 > info.pframe
       /\ block.y1 < info.pheight - info.pframe
    \/ occurs_in(<<"e", "p", "u", "b">>, format)

\* Lines 249-253: the head of the loop over the blocks of the page and the
\* test on the block's place on the page.
BlockStep ==
    /\ ret.out = Running /\ frames # <<>> /\ top.pc = "block"
    /\ IF top.bi > Len(top.pblocks[top.pi]) \/ top.skip \/ top.stop
       THEN goes_on([top EXCEPT !.pc = "page", !.pi = @ + 1])
       ELSE IF scanned(top.pblocks[top.pi][top.bi], top.info, lower(doc.format))
            THEN goes_on([top EXCEPT !.pc = "line", !.li = 1])
            ELSE goes_on([top EXCEPT !.pc = "post"])

\* blocks[blocks.index(block) - 1]: the block before the first block equal to
\* block, the last block of the page when that one is the first.
block_before(blocks, block) ==
    IF index(blocks, block) = 1 THEN blocks[Len(blocks)]
    ELSE blocks[index(blocks, block) - 1]

\* Lines 266-268: and binds tighter than or.
title_styled(span, lines, line, info) ==
    \/ span.font # info.main_font
    \/ /\ span.size # 10 * info.main_size
       /\ index(lines, line) - 1 < 4

\* The spans added whether the title has been found or not.
take_line_unkeyed(f, spans) ==
    LET g == IF f.value = <<>> THEN [f EXCEPT !.value = << <<>> >>] ELSE f
    IN [write_value(g, [g.value EXCEPT ![1] =
                          accumulate(@, spans, 1, g.info.main_size)])
          EXCEPT !.li = @ + 1]

\* Lines 333-344, the line's spans added to value[0], then the next line.
take_line(f, spans) ==
    IF f.key = <<>> THEN [f EXCEPT !.li = @ + 1]
    ELSE [write_value(f, [f.value EXCEPT ![1] =
                            accumulate(@, spans, 1, f.info.main_size)])
            EXCEPT !.li = @ + 1]

\* Lines 254-344: one line of the block. The frame f already holds the line as
\* get_span has rewritten it; spans is what get_span returned.
\* The outcome is the frame the activation goes on in, a call to make (pc
\* "call") or an exception.
scan_line(f, spans) ==
    LET blocks == f.pblocks[f.pi]
        block == blocks[f.bi]
        line == block.lines[f.li]
        text == spans[1].text
        break == [f EXCEPT !.pc = "post"]
    IN IF Len(spans) = 0 THEN Ok([f EXCEPT !.li = @ + 1])
       ELSE IF /\ block_before(blocks, block).type = 1
               /\ \/ spans[1].font # f.info.main_font
                  \/ spans[1].size < 10 * f.info.main_size
            THEN Ok(break)
       ELSE IF ~title_styled(spans[1], block.lines, line, f.info)
            THEN Ok(take_line(f, spans))
       ELSE IF title_matches(text, f.section[2])
            THEN IF f.key = <<>>
                 THEN LET g == [f EXCEPT !.key = f.section[2], !.value = << <<>> >>,
                                         !.aliased = FALSE]
                      IN IF Len(spans) <= 1 THEN Ok([g EXCEPT !.li = @ + 1])
                         ELSE Ok(take_line(g, Tail(spans)))
                 ELSE IF squeeze_span(text) = squeeze_title(f.section[2])
                      THEN Ok([f EXCEPT !.li = @ + 1])
                      ELSE Ok(take_line(f, spans))
       ELSE IF f.flag
            THEN IF f.next_section = None THEN Raise("TypeError")
                 ELSE IF ~title_matches(text, f.next_section[2])
                      THEN Ok([break EXCEPT !.skip = TRUE])
                      ELSE Ok([break EXCEPT !.flag = FALSE, !.stop = TRUE])
       ELSE IF /\ f.next_section # None
               /\ title_matches(text, f.next_section[2])
               /\ f.key # <<>>
            THEN Ok([break EXCEPT !.stop = TRUE])
       ELSE IF /\ Len(f.subsections) > 0
               /\ title_matches(text, f.subsections[1][2])
               /\ f.key # <<>>
            THEN Ok([f EXCEPT !.pc = "call"])
       ELSE IF is_references(text) THEN Ok([break EXCEPT !.stop = TRUE])
       ELSE IF Match(re_folio, text) /\ spans # <<>>
            THEN Ok([break EXCEPT !.skip = TRUE])
       ELSE Ok(take_line(f, spans))

\* Lines 254-344 for the line the activation stands at; past the last line of
\* the block, the end of the loop over the lines. At line 317 the activation
\* calls text_extract on the subsections.
LineStep ==
    /\ ret.out = Running /\ frames # <<>> /\ top.pc = "line"
    /\ LET lines == top.pblocks[top.pi][top.bi].lines
       IN IF top.li > Len(lines) THEN goes_on([top EXCEPT !.pc = "post"])
          ELSE \E spans \in { get_span(lines[top.li]) } :
               \E f \in { [top EXCEPT !.pblocks[top.pi][top.bi].lines[top.li] =
                                          rewritten(@)] } :
               \E then \in { IF spans.err # "none" THEN spans
                              ELSE scan_line(f, spans.val) } :
                  IF then.err # "none" THEN raises(then.err)
                  ELSE IF then.val.pc = "call"
                       THEN /\ frames' = Append(with_top(then.val),
                                            new_frame(f.subsections,
                                                index(f.pblocks[f.pi],
                                                      f.pblocks[f.pi][f.bi]) - 1))
                            /\ UNCHANGED <<app, disk, doc, toc, ret>>
                  ELSE goes_on(then.val)

\* Lines 346-353, after the lines of the block, then the next block.
PostStep ==
    /\ ret.out = Running /\ frames # <<>> /\ top.pc = "post"
    /\ IF top.key = <<>> THEN goes_on([top EXCEPT !.pc = "block", !.bi = @ + 1])
       ELSE LET f == [top EXCEPT !.main_text = setitem(@, top.key, top.value),
                                 !.aliased = TRUE]
                g == write_value(f, [f.value EXCEPT ![1] = tidy(@)])
            IN goes_on([g EXCEPT !.pc = "block", !.bi = @ + 1])

\* Line 357. The outermost activation hands main_text to the caller; an inner
\* one hands it to line 317 of the activation that called it, which appends
\* it to value, sets flag and leaves the loop over the lines (lines 317-319).
Return ==
    /\ ret.out = Running /\ frames # <<>> /\ top.pc = "return"
    /\ IF Len(frames) = 1
       THEN /\ ret' = [ret EXCEPT !.out = Ok(top.main_text)]
            /\ frames' = <<>>
            /\ UNCHANGED <<app, disk, doc, toc>>
       ELSE LET caller == frames[Len(frames) - 1]
                g == write_value(caller, Append(caller.value, top.main_text))
            IN /\ frames' = Append(SubSeq(frames, 1, Len(frames) - 2),
                                   [g EXCEPT !.flag = TRUE, !.pc = "post"])
               /\ UNCHANGED <<app, disk, doc, toc, ret>>

(***************************************************************************)
(* The documents and the calls of the extraction specification.            *)
(***************************************************************************)
\* The longest list of sections a caller asks for.
MaxRequest == 2

Introduction == <<"I", "n", "t", "r", "o", "d", "u", "c", "t", "i", "o", "n">>
Methods == <<"M", "e", "t", "h", "o", "d", "s">>
Data == <<"D", "a", "t", "a">>
Analysis == <<"A", "n", "a", "l", "y", "s", "i", "s">>

\* The embedded outlines: two chapters of which the second has two parts, a
\* chapter with two parts and nothing after it, two chapters without parts.
Scenario ==
    << <<1, Introduction, 1>>, <<1, Methods, 2>>, <<2, Data, 2>>, <<2, Analysis, 3>> >>

LastChapterWithParts == << <<1, Methods, 1>>, <<2, Data, 1>>, <<2, Analysis, 2>> >>

TwoChapters == << <<1, Introduction, 1>>, <<1, Methods, 2>> >>

Outlines == { Scenario, LastChapterWithParts, TwoChapters }

\* What a page may hold besides the sections: nothing, a running head in the
\* top margin, a picture with its caption, a page number within the frame,
\* a list of references the outline does not name.
Furniture == { "none", "head", "figure", "folio", "references" }

References == <<"R", "e", "f", "e", "r", "e", "n", "c", "e", "s">>

\* self.doc.metadata["format"]: a PDF, an EPUB, and an XPS document, which
\* pymupdf opens as well.
Formats == { <<"P", "D", "F", " ", "1", ".", "7">>, <<"E", "P", "U", "B">>, <<"X", "P", "S">> }

text_block(y0, y1, lines) == [type |-> 0, y0 |-> y0, y1 |-> y1, lines |-> lines]

image_block == [type |-> 1, y0 |-> 60, y1 |-> 140, lines |-> <<>>]

\* A heading is set in a bold face at 12 points.
heading(title) ==
    text_block(60, 80, << << [text |-> title, font |-> <<"B">>, size |-> 120] >> >>)

\* The body of a section: two lines in the text face at 10 points, the second
\* naming the section.
body(title) ==
    text_block(80, 140,
               << << [text |-> <<"T", "e", "x", "t", " ", "o", "f">>,
                      font |-> <<"F">>, size |-> 100] >>,
                  << [text |-> title \o <<".">>,
                      font |-> <<"F">>, size |-> 100] >> >>)

furniture_before(kind) ==
    IF kind = "head"
    THEN << text_block(10, 40, << << [text |-> Methods, font |-> <<"B">>,
                                      size |-> 80] >> >>) >>
    ELSE <<>>

furniture_after(kind) ==
    CASE kind = "figure" ->
           << image_block,
              text_block(140, 150, << << [text |-> <<"F", "i", "g", ".">>,
                                          font |-> <<"F">>,
                                          size |-> 80] >> >>) >>
      [] kind = "folio" ->
           << text_block(140, 150, << << [text |-> <<"1">>, font |-> <<"F">>,
                                          size |-> 80] >> >>) >>
      [] kind = "references" -> << heading(References), body(References) >>
      [] OTHER -> <<>>

\* The page p of a document with the given outline: each section that starts
\* on it, with its heading when the heading is printed, and on the first page
\* the furniture.
page_of(outline, printed, kind, p) ==
    LET part(i) == IF outline[i][3] # p THEN <<>>
                   ELSE (IF i \in printed THEN << heading(outline[i][2]) >> ELSE <<>>)
                        \o << body(outline[i][2]) >>
        parts == Flatten([ i \in 1..Len(outline) |-> part(i) ])
    IN IF p = 1 THEN furniture_before(kind) \o parts \o furniture_after(kind)
       ELSE parts

document(outline, printed, kind, format) ==
    LET page_count == Max({ outline[i][3] : i \in 1..Len(outline) })
    IN [ toc |-> outline, page_count |-> page_count, format |-> format,
         pheight |-> 200,
         pages |-> [ p \in 1..page_count |-> page_of(outline, printed, kind, p) ] ]

Documents ==
    UNION { { document(o, printed, kind, format) :
                printed \in SUBSET (1..Len(o)), kind \in Furniture,
                format \in Formats } : o \in Outlines }

\* The lists of at most MaxRequest different places of an outline of n entries.
Requests(n) ==
    { r \in UNION { [1..k -> 1..n] : k \in 1..MaxRequest } :
        \A i, j \in 1..Len(r) : i # j => r[i] # r[j] }

InitExtract ==
    /\ doc \in Documents
    /\ toc = get_toc(doc)
    /\ ret = NoCall
    /\ frames = <<>>
    /\ app = <<>>
    /\ disk = <<>>

NextExtract ==
    \/ \E places \in Requests(Len(toc)) : Call_text_extract(places)
    \/ Enter
    \/ SectionStep
    \/ PageStep
    \/ BlockStep
    \/ LineStep
    \/ PostStep
    \/ Return

SpecExtract == InitExtract /\ [][NextExtract]_vars

(***************************************************************************)
(* The documents and the calls of the page-layout specification: the scan  *)
(* of the first outline entry over pages that hold, besides the sections,  *)
(* a block before the title, a block inside the section and blocks at the  *)
(* end of the page.                                                        *)
(***************************************************************************)
\* What the first page holds before the title of its first section: nothing,
\* the heading "Methods" (the next section of the outline TwoChapters), a
\* heading "References".
ScanLeads == { "none", "sibling", "references" }

\* What it holds between the title and the text: nothing, a block that starts
\* with a small bare number, a block of six lines whose fifth is set in the
\* bold face at the size of the text, the same with the fifth line set in the
\* text face at 12 points.
ScanInsides == { "none", "folio", "bold_fifth", "large_fifth" }

\* What it holds after its sections: nothing, a picture, a picture with its
\* caption and a block of text after it.
ScanTails == { "none", "image", "caption" }

one_line(text, font, size) == << [text |-> text, font |-> font, size |-> size] >>

numbered_block ==
    text_block(80, 100, << one_line(<<"1">>, <<"F">>, 80),
                           one_line(<<"K", "e", "p", "t">>, <<"F">>, 100) >>)

long_block(font, size) ==
    text_block(80, 100, << one_line(<<"O", "n", "e">>, <<"F">>, 100),
                           one_line(<<"T", "w", "o">>, <<"F">>, 100),
                           one_line(<<"T", "r", "i">>, <<"F">>, 100),
                           one_line(<<"F", "o", "u", "r">>, <<"F">>, 100),
                           one_line(Methods, font, size),
                           one_line(<<"S", "i", "x">>, <<"F">>, 100) >>)

caption_block ==
    text_block(100, 120, << one_line(<<"F", "i", "g", ".">>, <<"F">>, 80),
                            one_line(<<"S", "e", "e", "n">>, <<"F">>, 80) >>)

closing_block ==
    text_block(120, 140, << one_line(<<"A", "f", "t", "e", "r">>, <<"F">>, 100) >>)

scan_lead(kind) ==
    CASE kind = "sibling" -> << heading(Methods) >>
      [] kind = "references" -> << heading(References) >>
      [] OTHER -> <<>>

scan_inside(kind) ==
    CASE kind = "folio" -> << numbered_block >>
      [] kind = "bold_fifth" -> << long_block(<<"B">>, 100) >>
      [] kind = "large_fifth" -> << long_block(<<"F">>, 120) >>
      [] OTHER -> <<>>

scan_tail(kind) ==
    CASE kind = "image" -> << image_block >>
      [] kind = "caption" -> << image_block, caption_block, closing_block >>
      [] OTHER -> <<>>

\* The document of the given outline with every heading printed, whose first
\* page holds the lead, the first section with the inside block between its
\* heading and its text, the other sections that start on the page, the tail.
scan_document(outline, lead, inside, tail, format) ==
    LET d == document(outline, 1..Len(outline), "none", format)
        first == << heading(outline[1][2]) >> \o scan_inside(inside)
                 \o << body(outline[1][2]) >>
    IN [d EXCEPT !.pages[1] = scan_lead(lead) \o first
                              \o SubSeq(d.pages[1], 3, Len(d.pages[1]))
                              \o scan_tail(tail)]

ScanDocuments ==
    { scan_document(o, lead, inside, tail, format) :
        o \in { TwoChapters, LastChapterWithParts },
        lead \in ScanLeads, inside \in ScanInsides, tail \in ScanTails,
        format \in { <<"P", "D", "F", " ", "1", ".", "7">>, <<"E", "P", "U", "B">> } }

InitScan ==
    /\ doc \in ScanDocuments
    /\ toc = get_toc(doc)
    /\ ret = NoCall
    /\ frames = <<>>
    /\ app = <<>>
    /\ disk = <<>>

\* A caller asks for one section of the outline.
NextScan ==
    \/ \E place \in 1..Len(toc) : Call_text_extract(<< place >>)
    \/ Enter
    \/ SectionStep
    \/ PageStep
    \/ BlockStep
    \/ LineStep
    \/ PostStep
    \/ Return

SpecScan == InitScan /\ [][NextScan]_vars

(***************************************************************************)
(* The documents and the calls of the typography specification.            *)
(***************************************************************************)
\* The most spans a document of this specification holds.
MaxSpans == 4

\* The sizes of its spans, in tenths of a point, and their texts: a letter,
\* or a blank the estimators pass over.
SpanSizes == { 20, 100, 105, 120 }

SpanTexts == { <<"x">>, <<" ">> }

SizedSpans == [ text : SpanTexts, font : { <<"F">> }, size : SpanSizes ]

\* The spans laid out one to a line, the first half of them in a block of the
\* first page and the rest in a block of the second page.
sized_document(spans) ==
    LET half == (Len(spans) + 1) \div 2
        block_of(ss) == text_block(60, 140, [ k \in 1..Len(ss) |-> << ss[k] >> ])
    IN [ toc |-> <<>>, page_count |-> 2, format |-> <<"P", "D", "F">>,
         pheight |-> 200,
         pages |-> << << block_of(SubSeq(spans, 1, half)) >>,
                      << block_of(SubSeq(spans, half + 1, Len(spans))) >> >> ]

InitSizes ==
    /\ doc \in { sized_document(spans) :
                   spans \in UNION { [1..n -> SizedSpans] : n \in 0..MaxSpans } }
    /\ toc = get_toc(doc)
    /\ ret = NoCall
    /\ frames = <<>>
    /\ app = <<>>
    /\ disk = <<>>

Call_get_main_size ==
    /\ ret = NoCall
    /\ ret' = [op |-> "get_main_size", pos |-> 0, arg |-> None,
               out |-> get_main_size(doc)]
    /\ UNCHANGED <<app, disk, doc, toc, frames>>

Call_get_main_font ==
    /\ ret = NoCall
    /\ ret' = [op |-> "get_main_font", pos |-> 0, arg |-> None,
               out |-> get_main_font(doc)]
    /\ UNCHANGED <<app, disk, doc, toc, frames>>

NextSizes ==
    \/ Call_get_main_size
    \/ Call_get_main_font

SpecSizes == InitSizes /\ [][NextSizes]_vars

(***************************************************************************)
(* TOCExtractor (src/app/toc_extractor.py): the scoring of heading         *)
(* candidates.                                                             *)
(*                                                                         *)
(* A span is [text, size, flags, y], y being bbox[1]; sizes are in tenths  *)
(* of a point and the median, which may fall half-way between two sizes,   *)
(* in twentieths. An Optional number is << >> for None and <<n>> for n.    *)
(***************************************************************************)
\* A literal under re.IGNORECASE: each letter in either case.
ILit(str) ==
    Seq_([ k \in 1..Len(str) |->
             IF str[k] \in AZ \cup az
             THEN Set({ c \in AZ \cup az : ToLower(c) = ToLower(str[k]) })
             ELSE Set({ str[k] }) ])

\* [IVXLCDM] under re.IGNORECASE
Roman == { "I", "V", "X", "L", "C", "D", "M", "i", "v", "x", "l", "c", "d", "m" }

\* (\d+|[IVXLCDM]+)[\s\.\-:]*(.*)$
re_number_and_rest ==
    Seq_(<< Alt(Plus(Set(Digit)), Plus(Set(Roman))),
            Star(Set(Space \cup { ".", "-", ":" })), Star(Dot), End >>)

\* self.heading_patterns, matched with re.IGNORECASE
heading_patterns ==
    << Seq_(<< Alt(ILit(<<"C", "h", "a", "p", "t", "e", "r">>),
                   ILit(<<"C", "H", "A", "P", "T", "E", "R">>)),
               Plus(Set(Space)), re_number_and_rest >>),
       Seq_(<< Plus(Set(Digit)), Set({ ".", ")" }), Plus(Set(Space)),
               Plus(Dot), End >>),
       Seq_(<< Plus(Set(Digit)), Lit(<<".">>), Plus(Set(Digit)),
               Set({ ".", ")" }), Plus(Set(Space)), Plus(Dot), End >>),
       Seq_(<< Plus(Set(Roman)), Plus(Set(Space \cup { ".", ")" })),
               Plus(Dot), End >>),
       Seq_(<< Alt(ILit(<<"P", "A", "R", "T">>), ILit(<<"P", "a", "r", "t">>)),
               Plus(Set(Space)), re_number_and_rest >>),
       Seq_(<< Alt(ILit(<<"S", "e", "c", "t", "i", "o", "n">>),
                   ILit(<<"S", "E", "C", "T", "I", "O", "N">>)),
               Plus(Set(Space)), Plus(Set(Digit)),
               Star(Set(Space \cup { ".", "-", ":" })), Star(Dot), End >>) >>

heading_keywords ==
    { <<"c", "h", "a", "p", "t", "e", "r">>, <<"s", "e", "c", "t", "i", "o", "n">>,
      <<"p", "a", "r", "t">>,
      <<"i", "n", "t", "r", "o", "d", "u", "c", "t", "i", "o", "n">>,
      <<"c", "o", "n", "c", "l", "u", "s", "i", "o", "n">>,
      <<"a", "p", "p", "e", "n", "d", "i", "x">>,
      <<"b", "i", "b", "l", "i", "o", "g", "r", "a", "p", "h", "y">>,
      <<"r", "e", "f", "e", "r", "e", "n", "c", "e", "s">>,
      <<"i", "n", "d", "e", "x">>, <<"a", "b", "s", "t", "r", "a", "c", "t">>,
      <<"s", "u", "m", "m", "a", "r", "y">>, <<"o", "v", "e", "r", "v", "i", "e", "w">>,
      <<"b", "a", "c", "k", "g", "r", "o", "u", "n", "d">>,
      <<"m", "e", "t", "h", "o", "d", "o", "l", "o", "g", "y">>,
      <<"r", "e", "s", "u", "l", "t", "s">>,
      <<"d", "i", "s", "c", "u", "s", "s", "i", "o", "n">>,
      <<"a", "c", "k", "n", "o", "w", "l", "e", "d", "g", "m", "e", "n", "t", "s">>,
      <<"p", "r", "e", "f", "a", "c", "e">>, <<"f", "o", "r", "e", "w", "o", "r", "d">> }

\* any(re.match(pattern, text, re.IGNORECASE) for pattern in self.heading_patterns)
pattern_match(text) ==
    \E k \in 1..Len(heading_patterns) : Match(heading_patterns[k], text)

\* any(keyword in text.lower() for keyword in self.heading_keywords)
keyword_match(text) == \E keyword \in heading_keywords : occurs_in(keyword, lower(text))

\* re.match(r'^\d+(\.\d+)*[\.\)\s]', text)
numeric_start(text) ==
    Match(Seq_(<< Plus(Set(Digit)),
                  Star(Seq_(<< Lit(<<".">>), Plus(Set(Digit)) >>)),
                  Set(Space \cup { ".", ")" }) >>), text)

\* re.match(r'^[IVXLCDM]+[\.\)\s]', text, re.IGNORECASE)
roman_start(text) ==
    Match(Seq_(<< Plus(Set(Roman)), Set(Space \cup { ".", ")" }) >>), text)

\* text.isupper() and len(text) < 50
is_caps(text) ==
    /\ \E k \in 1..Len(text) : text[k] \in AZ
    /\ \A k \in 1..Len(text) : text[k] \notin az \cup { "LIG_FI", "LIG_FL" }
    /\ Len(text) < 50

\* flags & 2**bit
has_flag(flags, bit) == (flags \div (2 ^ bit)) % 2 = 1

\* sorted(xs), ascending.
RECURSIVE sorted(_)
sorted(xs) ==
    IF xs = <<>> THEN <<>>
    ELSE LET k == CHOOSE i \in 1..Len(xs) : \A j \in 1..Len(xs) : xs[i] <= xs[j]
         IN <<xs[k]>> \o sorted(SubSeq(xs, 1, k - 1) \o SubSeq(xs, k + 1, Len(xs)))

\* sorted(list(set(xs)), reverse=True)
unique_descending(xs) ==
    LET up == sorted(xs)
        firsts == SelectSeq([ k \in 1..Len(up) |-> <<k, up[k]>> ],
                            LAMBDA p : p[1] = 1 \/ up[p[1] - 1] # p[2])
    IN [ k \in 1..Len(firsts) |-> firsts[Len(firsts) + 1 - k][2] ]

\* statistics.median(xs) of a non-empty list, doubled.
median_doubled(xs) ==
    LET up == sorted(xs)
        n == Len(xs)
    IN IF n % 2 = 1 THEN 2 * up[(n + 1) \div 2]
       ELSE up[n \div 2] + up[n \div 2 + 1]

\* The spans of the pages in reading order.
all_spans(pages) ==
    LET of_block(b) == Flatten(b.lines)
        of_page(p) == Flatten([ b \in 1..Len(p) |-> of_block(p[b]) ])
    IN Flatten([ p \in 1..Len(pages) |-> of_page(pages[p]) ])

\* _analyze_font_characteristics: median_size is in twentieths of a point.
analyze_font_characteristics(d) ==
    LET sample == SubSeq(d.pages, 1, Min({ 20, Len(d.pages) }))
        spans == all_spans(sample)
        font_sizes == [ k \in 1..Len(spans) |-> spans[k].size ]
        unique_sizes == unique_descending(font_sizes)
    IN IF font_sizes # <<>>
       THEN [ sizes |-> unique_sizes,
              median_size |-> median_doubled(font_sizes),
              large_sizes |-> SubSeq(unique_sizes, 1, Min({ 3, Len(unique_sizes) })) ]
       ELSE [ sizes |-> <<>>, median_size |-> 2 * 120, large_sizes |-> <<>> ]

above_median(span, font_stats) == 2 * span.size > font_stats.median_size

\* The scoring system of lines 197-213.
heading_score_size1(text, span, font_stats) ==
    (IF above_median(span, font_stats) THEN 1 ELSE 0)
    + (IF has_flag(span.flags, 4) THEN 2 ELSE 0)
    + (IF has_flag(span.flags, 1) THEN 1 ELSE 0)
    + (IF pattern_match(text) THEN 3 ELSE 0)
    + (IF keyword_match(text) THEN 2 ELSE 0)
    + (IF numeric_start(text) THEN 2 ELSE 0)
    + (IF roman_start(text) THEN 2 ELSE 0)
    + (IF is_caps(text) THEN 1 ELSE 0)

heading_score(text, span, font_stats) ==
    (IF above_median(span, font_stats) THEN 2 ELSE 0)
    + (IF has_flag(span.flags, 4) THEN 2 ELSE 0)
    + (IF has_flag(span.flags, 1) THEN 1 ELSE 0)
    + (IF pattern_match(text) THEN 3 ELSE 0)
    + (IF keyword_match(text) THEN 2 ELSE 0)
    + (IF numeric_start(text) THEN 2 ELSE 0)
    + (IF roman_start(text) THEN 2 ELSE 0)
    + (IF is_caps(text) THEN 1 ELSE 0)

is_potential_heading(text, span, font_stats) ==
    IF text = <<>> \/ Len(text) < 3 THEN FALSE
    ELSE IF Len(text) > 200 THEN FALSE
    ELSE IF ~above_median(span, font_stats) /\ ~pattern_match(text) THEN FALSE
    ELSE heading_score(text, span, font_stats) >= 3

\* r'^\d+\.\d+'
re_two_part == Seq_(<< Plus(Set(Digit)), Lit(<<".">>), Plus(Set(Digit)) >>)

starts_with_chapter_or_part(text) ==
    \E word \in { <<"C", "h", "a", "p", "t", "e", "r">>, <<"C", "H", "A", "P", "T", "E", "R">>,
                  <<"P", "a", "r", "t">>, <<"P", "A", "R", "T">> } :
        OccursAt(text, word, 1)

\* Lines 220-231: the level the size alone gives.
level_by_size(span, font_stats) ==
    LET size == span.size
        large_sizes == font_stats.large_sizes
    IN IF large_sizes # <<>>
       THEN IF size >= large_sizes[1] THEN 1
            ELSE IF Len(large_sizes) > 1 /\ size >= large_sizes[2] THEN 2
            ELSE IF Len(large_sizes) > 2 /\ size >= large_sizes[3] THEN 3
            ELSE 4
       ELSE 2

determine_heading_level_unforced(text, span, font_stats) ==
    Max({ 1, Min({ level_by_size(span, font_stats), 6 }) })

determine_heading_level(text, span, font_stats) ==
    LET level0 == level_by_size(span, font_stats)
        level ==
          IF starts_with_chapter_or_part(text) THEN Min({ level0, 1 })
          ELSE IF Match(Seq_(<< re_two_part, Lit(<<".">>), Plus(Set(Digit)) >>), text)
               THEN Max({ level0, 3 })
          ELSE IF Match(re_two_part, text) THEN Max({ level0, 2 })
          ELSE IF Match(Seq_(<< Plus(Set(Digit)), Set({ ".", ")" }) >>), text)
               THEN Max({ level0, 1 })
          ELSE level0
    IN Max({ 1, Min({ level, 6 }) })

(***************************************************************************)
(* Heading candidates: one page whose spans are up to MaxBackground spans  *)
(* of running text followed by one span made of up to two pieces of text.  *)
(* The operations are the two tests extract_toc_from_pdf applies to each   *)
(* span of the page (lines 68-70).                                         *)
(***************************************************************************)
MaxBackground == 2

\* 198 characters: with a two-character piece the text has 200 characters,
\* with a three-character one 201.
LongRun == [ k \in 1..198 |-> "x" ]

HeadingPieces ==
    { <<"3", ".", "2", " ">>, <<"1", ".", "2", ".", "3", " ">>, <<"3", ".", " ">>,
      <<"3", ")", " ">>, <<"C", "h", "a", "p", "t", "e", "r", " ">>,
      <<"c", "h", "a", "p", "t", "e", "r", " ">>, <<"P", "A", "R", "T", " ">>,
      <<"S", "e", "c", "t", "i", "o", "n", " ">>, <<"I", "V", ".", " ">>,
      <<"R", "e", "l", "a", "t", "e", "d", " ", "W", "o", "r", "k">>,
      <<"i", "n", "d", "e", "x">>, <<"A", "B">>, <<"A", "B", "C">>, <<"3">>,
      <<"o", "n", "e">>, <<" ">>, LongRun }

HeadingTexts ==
    HeadingPieces \cup { a \o b : a \in HeadingPieces \ { LongRun }, b \in HeadingPieces }

\* Bold is bit 4 and italic bit 1 of a span's flags.
SpanFlags == { 0, 2, 16, 18 }

HeadingSpans ==
    [ text : HeadingTexts, size : { 100, 120, 140 }, flags : SpanFlags, y : { 60 } ]

BackgroundSpans ==
    [ text : { <<"o", "n", "e">> }, size : { 100, 140 }, flags : { 0 }, y : { 80 } ]

heading_document(background, span) ==
    [ toc |-> <<>>, page_count |-> 1, format |-> <<"P", "D", "F">>, pheight |-> 200,
      pages |-> << << text_block(60, 140, << background \o << span >> >>) >> >> ]

InitHeadings ==
    /\ doc \in { heading_document(background, span) :
                   background \in UNION { [1..n -> BackgroundSpans] : n \in 0..MaxBackground },
                   span \in HeadingSpans }
    /\ toc = <<>>
    /\ ret = NoCall
    /\ frames = <<>>
    /\ app = <<>>
    /\ disk = <<>>

\* Lines 68-69: the test of one span of the page.
Call_is_potential_heading ==
    /\ ret = NoCall
    /\ \E font_stats \in { analyze_font_characteristics(doc) } :
       \E k \in 1..Len(all_spans(doc.pages)) :
       \E span \in { all_spans(doc.pages)[k] } :
       \E text \in { Strip(span.text, Space) } :
          ret' = [op |-> "is_potential_heading", pos |-> k,
                  arg |-> [text |-> text, span |-> span, font_stats |-> font_stats],
                  out |-> Ok(is_potential_heading(text, span, font_stats))]
    /\ UNCHANGED <<app, disk, doc, toc, frames>>

\* Line 70: the level of a span the test of line 69 accepted.
Call_determine_heading_level ==
    /\ ret = NoCall
    /\ \E font_stats \in { analyze_font_characteristics(doc) } :
       \E k \in 1..Len(all_spans(doc.pages)) :
       \E span \in { all_spans(doc.pages)[k] } :
       \E text \in { Strip(span.text, Space) } :
          /\ is_potential_heading(text, span, font_stats)
          /\ ret' = [op |-> "determine_heading_level", pos |-> k,
                     arg |-> [text |-> text, span |-> span, font_stats |-> font_stats],
                     out |-> Ok(determine_heading_level(text, span, font_stats))]
    /\ UNCHANGED <<app, disk, doc, toc, frames>>

NextHeadings ==
    \/ Call_is_potential_heading
    \/ Call_determine_heading_level

SpecHeadings == InitHeadings /\ [][NextHeadings]_vars

(***************************************************************************)
(* TOCExtractor._clean_and_sort_toc.  An entry is [title, level, page,     *)
(* position], page and position being Optional numbers.                    *)
(***************************************************************************)
\* x or 0, for an Optional number x.
or_zero(x) == IF x = None THEN 0 ELSE x[1]

\* The truth value of an Optional number.
truthy(x) == x # None /\ x[1] # 0

\* Lines 347-353: the first entry of every (title.lower(), level) is kept.
remove_duplicates(entries) ==
    LET key(entry) == << lower(entry.title), entry.level >>
    IN SelectSeq([ i \in 1..Len(entries) |-> [at |-> i, entry |-> entries[i]] ],
                 LAMBDA e : \A j \in 1..(e.at - 1) : key(entries[j]) # key(e.entry))

\* The order of Python tuples of numbers of one length.
tuple_le(a, b) ==
    \/ a = b
    \/ \E k \in 1..Len(a) :
          /\ \A j \in 1..(k - 1) : a[j] = b[j]
          /\ a[k] < b[k]

\* list.sort of the pairs [key, entry] by their keys: a stable sort.
RECURSIVE sort_keyed(_)
sort_keyed(pairs) ==
    IF pairs = <<>> THEN <<>>
    ELSE LET least == { i \in 1..Len(pairs) :
                          \A j \in 1..Len(pairs) : tuple_le(pairs[i].key, pairs[j].key) }
             k == Min(least)
         IN << pairs[k].entry >>
            \o sort_keyed(SubSeq(pairs, 1, k - 1) \o SubSeq(pairs, k + 1, Len(pairs)))

key_page_only(x) == << or_zero(x.page) >>

\* Line 357: lambda x: (x.page or 0, x.position or 0)
key_page_position(x) == << or_zero(x.page), or_zero(x.position) >>

\* Line 359: lambda x: x.position or 0
key_position(x) == << or_zero(x.position) >>

clean_and_sort_toc(entries) ==
    IF entries = <<>> THEN <<>>
    ELSE LET kept == remove_duplicates(entries)
             cleaned == [ i \in 1..Len(kept) |-> kept[i].entry ]
         IN IF \E i \in 1..Len(cleaned) : truthy(cleaned[i].page)
            THEN sort_keyed([ i \in 1..Len(cleaned) |->
                                [key |-> key_page_position(cleaned[i]), entry |-> cleaned[i]] ])
            ELSE IF \E i \in 1..Len(cleaned) : truthy(cleaned[i].position)
            THEN sort_keyed([ i \in 1..Len(cleaned) |->
                                [key |-> key_position(cleaned[i]), entry |-> cleaned[i]] ])
            ELSE cleaned

MaxEntries == 3

\* The entries the extraction of a PDF (lines 71-76) and of an EPUB (lines
\* 282-338) build, and entries with only one of page and position.
TOCEntries ==
    [ title : { <<"a">>, <<"A">> }, level : 1..2,
      page : { None, <<1>>, <<2>> }, position : { None, <<10>> } ]

InitEntries ==
    /\ doc = [toc |-> <<>>, page_count |-> 2]
    /\ toc = <<>>
    /\ ret = NoCall
    /\ frames = <<>>
    /\ app = <<>>
    /\ disk = <<>>

Call_clean_and_sort_toc ==
    /\ ret = NoCall
    /\ \E entries \in UNION { [1..n -> TOCEntries] : n \in 0..MaxEntries } :
          ret' = [op |-> "clean_and_sort_toc", pos |-> 0, arg |-> entries,
                  out |-> Ok(clean_and_sort_toc(entries))]
    /\ UNCHANGED <<app, disk, doc, toc, frames>>

NextEntries == Call_clean_and_sort_toc

SpecEntries == InitEntries /\ [][NextEntries]_vars

(***************************************************************************)
(* Lines: get_span applied to a line of up to MaxLineSpans spans, applied  *)
(* again to the merged spans it returned, and the accumulation of a line   *)
(* of running text into the text of a section (text_extract, lines         *)
(* 333-353).                                                               *)
(***************************************************************************)
MaxLineSpans == 3

LineTexts ==
    { <<" ", "b">>, <<"A", ".">>, <<"A", "B">>, <<"LIG_FI">>,
      <<"[", " ", "1", " ", "]">>, <<" ">> }

\* The text face at 10 points and another face at 12 points.
LineStyles == { << <<"F">>, 100 >>, << <<"G">>, 120 >> }

LineSpans ==
    { [text |-> t, font |-> style[1], size |-> style[2]] :
        t \in LineTexts, style \in LineStyles }

\* The fonts of a line are named as they are or, embedded as subsets, with
\* a tag before the name.
SubsetTags == { <<>>, <<"A", "+">> }

Lines ==
    { [ k \in 1..Len(line) |-> [line[k] EXCEPT !.font = tag \o @] ] :
        line \in UNION { [1..n -> LineSpans] : n \in 0..MaxLineSpans },
        tag \in SubsetTags }

\* Lines of running text, which begin in the main font and size and may go
\* on in a smaller size, and the text a section has before them.
BodyTexts ==
    { <<"p", "l", "e">>, <<"a", "n", "d">>, <<"P", "l", "e", ".">>, <<"7">> }

BodyLines ==
    { line \in UNION { [1..n -> [text : BodyTexts, font : { <<"F">> }, size : { 80, 100 }]] :
                         n \in 1..2 } :
        line[1].size = 100 }

BodyValues ==
    { <<>>, <<"A", "n", " ", "e", "x", "a", "m", "-">>, <<"e", "x", "a", "m", "-">>,
      <<"A", "n", " ", "e", "x", "a", "m">>, <<"-">> }

InitLines ==
    /\ doc = [toc |-> <<>>, page_count |-> 1]
    /\ toc = <<>>
    /\ ret = NoCall
    /\ frames = <<>>
    /\ app = <<>>
    /\ disk = <<>>

Call_get_span ==
    /\ ret = NoCall
    /\ \E line \in Lines :
          ret' = [op |-> "get_span", pos |-> 0, arg |-> line, out |-> get_span(line)]
    /\ UNCHANGED <<app, disk, doc, toc, frames>>

\* get_span on the merged spans an earlier call returned.
Call_get_span_on_result ==
    /\ ret.op = "get_span"
    /\ ret.pos = 0
    /\ ret.out.err = "none"
    /\ ret' = [op |-> "get_span", pos |-> 1, arg |-> ret.out.val,
               out |-> get_span(ret.out.val)]
    /\ UNCHANGED <<app, disk, doc, toc, frames>>

\* Lines 255 and 333-353 for a one-line block of running text, the main font
\* being F at 10 points and value[0] holding text: the spans are appended
\* and the value is tidied at the end of the block.
Call_accumulate ==
    /\ ret = NoCall
    /\ \E text \in BodyValues : \E line \in BodyLines :
       \E spans \in { get_span(line) } :
          ret' = [op |-> "accumulate", pos |-> 0,
                  arg |-> [text |-> text, line |-> line],
                  out |-> IF spans.err # "none" THEN spans
                          ELSE Ok(tidy(accumulate(text, spans.val, 1, 10)))]
    /\ UNCHANGED <<app, disk, doc, toc, frames>>

NextLines ==
    \/ Call_get_span
    \/ Call_get_span_on_result
    \/ Call_accumulate

SpecLines == InitLines /\ [][NextLines]_vars

(***************************************************************************)
(* Properties of the outline operations, checked under Spec.               *)
(***************************************************************************)
\* The positions after i whose entry is at the level of entry i or above it.
LaterNotDeeper(t, i) == { j \in (i + 1)..Len(t) : t[j][1] <= t[i][1] }

\* C1: in the outline get_toc returns, the end page of every entry is the
\* start page of the first later entry whose level is <= its own, and the
\* document's page count when there is no such entry.
C1_EndPageIsNextStart ==
    /\ \A i \in 1..Len(toc) :
         toc[i][4] = IF LaterNotDeeper(toc, i) = {} THEN doc.page_count
                     ELSE toc[Min(LaterNotDeeper(toc, i))][3]
    /\ ret.op = "get_toc" =>
         /\ ret.out.err = "none"
         /\ Len(ret.out.val) = Len(doc.toc)
         /\ \A i \in 1..Len(ret.out.val) :
              ret.out.val[i][4] =
                  IF LaterNotDeeper(doc.toc, i) = {} THEN doc.page_count
                  ELSE doc.toc[Min(LaterNotDeeper(doc.toc, i))][3]

\* get_toc has returned an outline in which one entry ends where a later,
\* not adjacent entry starts (deeper entries lie between them), on a page
\* other than the last, and another entry runs to the end of the document.
C1_Witness ==
    /\ ret.op = "get_toc"
    /\ \E i \in 1..Len(ret.out.val) :
         /\ LaterNotDeeper(doc.toc, i) # {}
         /\ Min(LaterNotDeeper(doc.toc, i)) > i + 1
         /\ ret.out.val[i][4] # doc.page_count
    /\ \E i \in 1..Len(ret.out.val) :
         /\ LaterNotDeeper(doc.toc, i) = {}
         /\ ret.out.val[i][4] = doc.page_count

\* C2: every entry get_toc returns has start_page <= end_page, whatever the
\* embedded outline (start pages out of order, start pages beyond the page
\* count).
C2_StartLeEnd ==
    ret.op = "get_toc" =>
        \A i \in 1..Len(ret.out.val) : ret.out.val[i][3] <= ret.out.val[i][4]

\* The maximal run of entries right after position i that are deeper than
\* entry i.
DeeperRun(t, i) ==
    SubSeq(t, i + 1,
           IF LaterNotDeeper(t, i) = {} THEN Len(t)
           ELSE Min(LaterNotDeeper(t, i)) - 1)

\* C3: get_children(e) returns exactly the maximal contiguous run of entries
\* right after e that are deeper than e; the run ends at the first entry at
\* e's level or above it and nothing behind that entry is returned. (e is
\* located where list.index finds it.)
C3_ChildrenAreDeeperRun ==
    ret.op = "get_children" =>
        ret.out = Ok(DeeperRun(toc, index(toc, ret.arg)))

\* C4: get_next_section(e) returns the first entry located after e whose
\* level is <= e's, and None exactly when no later entry has such a level.
\* (e is the entry at the position the caller took it from.)
C4_NextSectionIsFirstLaterNotDeeper ==
    ret.op = "get_next_section" =>
        /\ ret.out.err = "none"
        /\ ret.out.val = IF LaterNotDeeper(toc, ret.pos) = {} THEN None
                         ELSE toc[Min(LaterNotDeeper(toc, ret.pos))]
        /\ (ret.out.val = None) <=> (LaterNotDeeper(toc, ret.pos) = {})

\* The positions before i whose entry is less deep than entry i.
EarlierShallower(t, i) == { j \in 1..(i - 1) : t[j][1] < t[i][1] }

\* C5: for every entry, at every position and depth, get_parent completes
\* without error and returns the nearest preceding entry of smaller level,
\* None when there is none (the entry hangs off the sentinel root).
C5_ParentIsNearestShallower ==
    ret.op = "get_parent" =>
        /\ ret.out.err = "none"
        /\ ret.out.val =
             IF EarlierShallower(toc, index(toc, ret.arg)) = {} THEN None
             ELSE toc[Max(EarlierShallower(toc, index(toc, ret.arg)))]

\* The level of the entry a path ends with.
PathLevel(p, k) == p[k][1]

\* Entry d can be reached from entry a along the outline through entries that
\* are all deeper than a.
ReachedThroughDeeper(t, a, d) ==
    \E i \in 1..Len(t) : \E j \in (i + 1)..Len(t) :
        /\ t[i] = a
        /\ t[j] = d
        /\ \A k \in (i + 1)..j : t[k][1] > a[1]

\* C6: for any outline with levels >= 1, also one that starts below level 1
\* or skips levels, toc2dtoc does not fail and leaves the level-0 sentinel at
\* the bottom of its stack; in the tree every direct child is deeper than its
\* parent, and no entry between a node and any of its descendants in the
\* outline is at the node's level or above it.
C6_TreeIsWellNested ==
    /\ toc2dtoc_build(toc).err = "none"
    /\ toc2dtoc_build(toc).stack[1] = [level |-> 0, path |-> <<>>]
    /\ ret.op = "toc2dtoc" =>
         /\ ret.out.err = "none"
         /\ \A n \in 1..Len(ret.out.val) :
              LET p == ret.out.val[n].path
              IN /\ \A k \in 2..Len(p) : PathLevel(p, k) > PathLevel(p, k - 1)
                 /\ \A k \in 1..(Len(p) - 1) :
                      ReachedThroughDeeper(toc, p[k], p[Len(p)])
         /\ \A i \in 1..Len(toc) :
              \/ EarlierShallower(toc, i) # {}
              \/ \E n \in 1..Len(ret.out.val) : ret.out.val[n].path = <<toc[i]>>

\* toc2dtoc has built the tree of an outline that starts below level 1 and
\* in which a child skips a level under its parent.
C6_Witness ==
    /\ ret.op = "toc2dtoc"
    /\ Len(toc) >= 2
    /\ toc[1][1] > 1
    /\ \E n \in 1..Len(ret.out.val) :
         LET p == ret.out.val[n].path
         IN Len(p) = 2 /\ PathLevel(p, 2) >= PathLevel(p, 1) + 2

(***************************************************************************)
(* Properties of text_extract, checked under SpecExtract.                  *)
(***************************************************************************)
\* The place in the outline of the parent of the entry at place i: the nearest
\* earlier entry of a lower level; 0 when there is none.
parent_place(t, i) ==
    IF EarlierShallower(t, i) = {} THEN 0 ELSE Max(EarlierShallower(t, i))

\* The outermost activation stands at the head of the loop over the sections,
\* before the k-th requested section.
AtRequested(k) ==
    /\ ret.op = "text_extract" /\ ret.out = Running
    /\ Len(frames) = 1
    /\ frames[1].pc = "section" /\ frames[1].si = k /\ k <= Len(ret.pos)

\* C7: when a section and its parent are both in the requested set, the
\* top-level loop skips the section: standing before it, the loop goes on to
\* the next requested section without scanning it and without failing.
C7_ChildOfRequestedParentIsSkipped ==
    [][ \A k \in 1..MaxRequest :
          ( /\ AtRequested(k)
            /\ \E j \in 1..Len(ret.pos) :
                  ret.pos[j] = parent_place(toc, ret.pos[k]) )
          => /\ ret'.out = Running
             /\ Len(frames') = 1
             /\ frames'[1].pc = "section" /\ frames'[1].si = k + 1 ]_vars

\* The keys of a dict, in insertion order.
keys_of(d) == [ i \in 1..Len(d) |-> d[i].key ]

\* The keys of the dicts nested in a value, value[1:].
nested_keys(value) ==
    UNION { Range(keys_of(value[n])) : n \in 2..Len(value) }

\* C8: on a document whose outline is Introduction, Methods, Data, Analysis
\* (Data and Analysis being parts of Methods) and whose headings are all
\* printed, a call asking for Methods alone ends with a mapping whose only
\* top-level key is Methods, with Data and Analysis nested in its value.
C8_MethodsScenario ==
    ( /\ doc.toc = Scenario
      /\ doc.pages = document(Scenario, 1..4, "none", doc.format).pages
      /\ ret.op = "text_extract" /\ ret.pos = <<2>>
      /\ ret.out # Running )
    => /\ ret.out.err = "none"
       /\ keys_of(ret.out.val) = << Methods >>
       /\ nested_keys(ret.out.val[1].value) = { Data, Analysis }

\* No line of the section's pages is taken for a title and matches the
\* section's title.
NeverMatched(section) ==
    \A p \in section[3]..section[4] :
       \A b \in 1..Len(doc.pages[p]) :
          \A l \in 1..Len(doc.pages[p][b].lines) :
             LET lines == doc.pages[p][b].lines
                 spans == get_span(lines[l])
             IN \/ spans.err # "none"
                \/ spans.val = <<>>
                \/ ~title_styled(spans.val[1], lines, lines[l], info_extract(doc).val)
                \/ ~title_matches(spans.val[1].text, section[2])

\* C9: when text_extract returns, every requested section whose title no
\* title-styled line of its pages matched is a key of the mapping, with the
\* empty string for its text.
C9_UnmatchedTitleGivesEmptyString ==
    ( ret.op = "text_extract" /\ ret.out.err = "none" )
    => \A k \in 1..Len(ret.arg) :
          NeverMatched(ret.arg[k])
          => \E i \in 1..Len(ret.out.val) :
                /\ ret.out.val[i].key = ret.arg[k][2]
                /\ ret.out.val[i].value \in { <<>>, << <<>> >> }

\* C10: a failure on one requested section does not abort the call: once the
\* outermost activation holds the entry of a requested section, text_extract
\* does not end in an exception, whatever the outline and the request.
C10_NoSectionFailureAbortsTheCall ==
    ( /\ ret.op = "text_extract"
      /\ frames # <<>>
      /\ frames[1].main_text # <<>> )
    => ret.out.err \in { "none", "running" }

(***************************************************************************)
(* Properties of get_main_size, checked under SpecSizes.                   *)
(***************************************************************************)
\* The rounded sizes of the document's counted spans with their counts, the
\* most frequent first.
size_ranks == 
    LET spans == counted_spans(doc.pages)
    IN most_common([ i \in 1..Len(spans) |-> round(spans[i].size) ])

\* C11: when the document has two different rounded sizes, get_main_size
\* returns the second most frequent one exactly when it is the larger of the
\* two and its count exceeds half the count of the most frequent one, and
\* the most frequent one otherwise.
C11_SecondSizeNeedsHalfTheTopCount ==
    ( ret.op = "get_main_size" /\ Len(size_ranks) >= 2 )
    => /\ ret.out.err = "none"
       /\ ret.out.val =
             IF /\ size_ranks[2][1] > size_ranks[1][1]
                /\ 2 * size_ranks[2][2] > size_ranks[1][2]
             THEN size_ranks[2][1]
             ELSE size_ranks[1][1]

(***************************************************************************)
(* Properties of the heading tests, checked under SpecHeadings.            *)
(***************************************************************************)
\* The score as the specification states it, signal by signal.
stated_score(text, span, font_stats) ==
    LET plus(signal, weight) == IF signal THEN weight ELSE 0
    IN plus(2 * span.size > font_stats.median_size, 2)
       + plus(has_flag(span.flags, 4), 2)
       + plus(has_flag(span.flags, 1), 1)
       + plus(pattern_match(text), 3)
       + plus(keyword_match(text), 2)
       + plus(numeric_start(text), 2)
       + plus(roman_start(text), 2)
       + plus(is_caps(text), 1)

\* C12: a span is accepted as a heading candidate exactly when its stripped
\* text has between 3 and 200 characters, its size is above the median or the
\* text matches a heading pattern, and its score is at least 3, the score
\* being: above the median 2, bold 2, italic 1, heading pattern 3, keyword 2,
\* numeric marker 2, Roman numeral marker 2, short and upper-case 1.
C12_AcceptedIffInLengthSupportedAndScored ==
    ret.op = "is_potential_heading"
    => LET text == ret.arg.text
           span == ret.arg.span
           font_stats == ret.arg.font_stats
       IN ret.out.val
          <=> /\ Len(text) >= 3
              /\ Len(text) <= 200
              /\ \/ 2 * span.size > font_stats.median_size
                 \/ pattern_match(text)
              /\ stated_score(text, span, font_stats) >= 3

\* "3.2 Related Work", bold and above the median, has been accepted.
C12_Witness ==
    /\ ret.op = "is_potential_heading"
    /\ ret.arg.text = <<"3", ".", "2", " ", "R", "e", "l", "a", "t", "e", "d", " ",
                        "W", "o", "r", "k">>
    /\ has_flag(ret.arg.span.flags, 4)
    /\ 2 * ret.arg.span.size > ret.arg.font_stats.median_size
    /\ ret.out.val = TRUE

\* The number of digits the text has from position p on.
digits_at(text, p) ==
    CHOOSE n \in 0..Len(text) :
        /\ \A k \in p..(p + n - 1) : k <= Len(text) /\ text[k] \in Digit
        /\ p + n > Len(text) \/ text[p + n] \notin Digit

\* The position after a number and a point that begin at p, 0 without them.
after_number_point(text, p) ==
    LET n == digits_at(text, p)
    IN IF n > 0 /\ p + n <= Len(text) /\ text[p + n] = "." THEN p + n + 1 ELSE 0

\* The text begins with digits, a point and digits.
two_part_marker(text) ==
    LET q == after_number_point(text, 1)
    IN q > 0 /\ digits_at(text, q) > 0

\* The text begins with digits, a point, digits, a point and digits.
three_part_marker(text) ==
    LET q == after_number_point(text, 1)
        r == IF q > 0 THEN after_number_point(text, q) ELSE 0
    IN r > 0 /\ digits_at(text, r) > 0

chapter_or_part_marker(text) ==
    \E word \in { <<"C", "h", "a", "p", "t", "e", "r">>, <<"C", "H", "A", "P", "T", "E", "R">>,
                  <<"P", "a", "r", "t">>, <<"P", "A", "R", "T">> } :
        Len(text) >= Len(word) /\ SubSeq(text, 1, Len(word)) = word

\* C13: the level given to an accepted span lies in 1..6; it is 1 when the
\* text starts with Chapter or Part, at least 3 when it starts with a
\* three-part number and at least 2 when it starts with a two-part number,
\* whatever level the size of the span alone would give.
C13_LevelInRangeAndForcedByMarker ==
    ret.op = "determine_heading_level"
    => LET text == ret.arg.text
           level == ret.out.val
       IN /\ level \in 1..6
          /\ chapter_or_part_marker(text) => level = 1
          /\ three_part_marker(text) => level >= 3
          /\ two_part_marker(text) => level >= 2

\* "3.2 Related Work" in the largest size of the page, which alone gives
\* level 1, has been given level 2.
C13_Witness ==
    /\ ret.op = "determine_heading_level"
    /\ ret.arg.text = <<"3", ".", "2", " ", "R", "e", "l", "a", "t", "e", "d", " ",
                        "W", "o", "r", "k">>
    /\ ret.arg.span.size = ret.arg.font_stats.large_sizes[1]
    /\ ret.out.val = 2

(***************************************************************************)
(* Properties of _clean_and_sort_toc, checked under SpecEntries.           *)
(***************************************************************************)
same_heading(a, b) == lower(a.title) = lower(b.title) /\ a.level = b.level

\* The position in the input of the first entry with the heading of e.
first_in_input(e) == Min({ i \in 1..Len(ret.arg) : same_heading(ret.arg[i], e) })

\* One entry comes before another by page, then by position, an absent
\* number counting as 0.
strictly_before(a, b) ==
    \/ or_zero(a.page) < or_zero(b.page)
    \/ or_zero(a.page) = or_zero(b.page) /\ or_zero(a.position) < or_zero(b.position)

\* C14: the result has no two entries with one lowercased title and level,
\* holds for every such pair of the input its first entry, and is ordered by
\* page and then position, entries equal on both staying in input order.
C14_FirstOfEachHeadingInPageOrder ==
    ret.op = "clean_and_sort_toc"
    => LET out == ret.out.val
       IN /\ \A i, j \in 1..Len(out) : same_heading(out[i], out[j]) => i = j
          /\ \A i \in 1..Len(ret.arg) : \E k \in 1..Len(out) : same_heading(out[k], ret.arg[i])
          /\ \A k \in 1..Len(out) : out[k] = ret.arg[first_in_input(out[k])]
          /\ \A i, j \in 1..Len(out) :
                i < j => /\ ~strictly_before(out[j], out[i])
                         /\ strictly_before(out[i], out[j])
                            \/ first_in_input(out[i]) < first_in_input(out[j])

\* A duplicate was dropped and the entries left were put in another order
\* than the one they came in.
C14_Witness ==
    /\ ret.op = "clean_and_sort_toc"
    /\ Len(ret.arg) = 3
    /\ Len(ret.out.val) = 2
    /\ first_in_input(ret.out.val[1]) > first_in_input(ret.out.val[2])
    /\ ret.out.val[1].page = ret.out.val[2].page

(***************************************************************************)
(* Properties of get_span and of the accumulation, checked under           *)
(* SpecLines.                                                              *)
(***************************************************************************)
\* A text without its white space and with its ligatures spelled out.
RECURSIVE spelled(_)
spelled(text) ==
    IF text = <<>> THEN <<>>
    ELSE (IF Head(text) \in Space THEN <<>>
          ELSE IF Head(text) = "LIG_FI" THEN <<"f", "i">>
          ELSE IF Head(text) = "LIG_FL" THEN <<"f", "l">>
          ELSE << Head(text) >>) \o spelled(Tail(text))

\* The texts of the spans one after the other.
RECURSIVE texts_in_order(_)
texts_in_order(spans) ==
    IF spans = <<>> THEN <<>> ELSE Head(spans).text \o texts_in_order(Tail(spans))

\* a can be had from b by leaving characters out.
RECURSIVE is_subsequence(_, _)
is_subsequence(a, b) ==
    IF a = <<>> THEN TRUE
    ELSE IF b = <<>> THEN FALSE
    ELSE IF Head(a) = Head(b) THEN is_subsequence(Tail(a), Tail(b))
    ELSE is_subsequence(a, Tail(b))

letters(text) == SelectSeq(text, LAMBDA c : c \in AZ \cup az)

non_blank(line) == SelectSeq(line, LAMBDA s : ~Match(re_blank, s.text))

\* C15: the merged spans get_span returns hold, read one after the other,
\* the texts of the line's spans that are not white space in the order of
\* the line: white space and ligature spelling apart, no character of the
\* result is out of that order and every letter of the line is in it.
C15_MergedSpansKeepReadingOrder ==
    ( ret.op = "get_span" /\ ret.pos = 0 /\ ret.out.err = "none" )
    => LET given == spelled(texts_in_order(non_blank(ret.arg)))
           merged == spelled(texts_in_order(ret.out.val))
       IN /\ is_subsequence(merged, given)
          /\ letters(merged) = letters(given)

\* Three spans of different texts were merged by two different rules into
\* one span: the abbreviation rule and then the same-font rule.
C15_Witness ==
    /\ ret.op = "get_span"
    /\ ret.pos = 0
    /\ ret.out.err = "none"
    /\ Len(ret.arg) = 3
    /\ ret.arg[1].text = <<"A", ".">>
    /\ ret.arg[2].text = <<" ", "b">>
    /\ ret.arg[3].text = <<"A", "B">>
    /\ ret.arg[1].font # ret.arg[2].font
    /\ ret.arg[2].font = ret.arg[3].font
    /\ Len(ret.out.val) = 1
    /\ ret.out.val[1].text = <<"A", ".", " ", "b", " ", "A", "B">>

\* C17: get_span applied to the merged spans a call of get_span returned
\* returns too: it raises nothing.
C17_GetSpanOfItsResultReturns ==
    ( ret.op = "get_span" /\ ret.pos = 1 ) => ret.out.err = "none"

\* C16: when the text of a section ends with the line-break hyphen of
\* "exam-" and the next line of running text is the one span "ple", the
\* text ends with "example" afterwards: no space is put in and the hyphen
\* is dropped.
C16_LineBreakHyphenIsJoined ==
    ( /\ ret.op = "accumulate"
      /\ Len(ret.arg.text) >= 5
      /\ SubSeq(ret.arg.text, Len(ret.arg.text) - 4, Len(ret.arg.text))
            = <<"e", "x", "a", "m", "-">>
      /\ Len(ret.arg.line) = 1
      /\ ret.arg.line[1].text = <<"p", "l", "e">> )
    => /\ ret.out.err = "none"
       /\ Len(ret.out.val) >= 7
       /\ SubSeq(ret.out.val, Len(ret.out.val) - 6, Len(ret.out.val))
             = <<"e", "x", "a", "m", "p", "l", "e">>

(***************************************************************************)
(* Properties of the scan of the blocks, checked under SpecExtract.        *)
(***************************************************************************)
\* The block the innermost activation stands at.
block_at_hand == top.pblocks[top.pi][top.bi]

is_pdf == occurs_in(<<"p", "d", "f">>, lower(doc.format))

is_epub == occurs_in(<<"e", "p", "u", "b">>, lower(doc.format))

\* The block lies between the margin bands of 50 units at the top and at the
\* bottom of the page.
between_margins(block) == block.y0 > 50 /\ block.y1 < doc.pheight - 50

\* The innermost activation after the step.
top_after == frames'[Len(frames')]

C19_UnsupportedFormatIsFatal ==
    ( ret.op = "text_extract" /\ ret.out # Running /\ ~is_pdf /\ ~is_epub )
    => ret.out.err # "none"

\* The text gathered for the section at hand: value[0], nothing before
\* line 278 has made the list.
gathered(f) == IF f.value = <<>> THEN <<>> ELSE f.value[1]

line_at_hand == block_at_hand.lines[top.li]

\* The innermost activation is about to scan a line.
scanning_line ==
    /\ ret.out = Running /\ frames # <<>>
    /\ top.pc = "line"
    /\ top.li <= Len(block_at_hand.lines)

\* The span is not set in the font and at the size of the text.
differs_from_baseline(span) ==
    span.font # top.info.main_font \/ span.size # 10 * top.info.main_size

\* The block before the block at hand on its page is an image.
after_image == top.bi > 1 /\ top.pblocks[top.pi][top.bi - 1].type = 1

\* got is what get_span made of the line at hand: the line has spans, is one
\* of the first four of its block and set as a heading, and its block is not
\* one that lines 260-263 look at as a caption.
heading_at_hand(got) ==
    /\ got.err = "none" /\ got.val # <<>>
    /\ top.li <= 4
    /\ differs_from_baseline(got.val[1])
    /\ block_before(top.pblocks[top.pi], block_at_hand).type # 1

\* C21: while the title of the section has not been found, a heading that
\* matches the title of the next section, or a heading "references" or
\* "bibliography", ends the scan of the section (stop is set, so that no
\* further block and no further page is scanned) and leaves it without key.
C21_FalseStartAbandonsSection ==
    [][ scanning_line =>
        \A got \in { get_span(line_at_hand) } :
           ( /\ heading_at_hand(got)
             /\ top.key = <<>>
             /\ ~title_matches(got.val[1].text, top.section[2])
             /\ \/ /\ top.next_section # None
                   /\ title_matches(got.val[1].text, top.next_section[2])
                \/ is_references(got.val[1].text) )
           => /\ Len(frames') = Len(frames)
              /\ top_after.stop
              /\ top_after.key = <<>> ]_vars

\* got is what get_span made of the line at hand: a bare number, every span
\* of it smaller than the text.
folio_at_hand(got) ==
    /\ heading_at_hand(got)
    /\ Match(re_folio, got.val[1].text)
    /\ \A k \in 1..Len(got.val) : got.val[k].size < 10 * top.info.main_size
    /\ ~title_matches(got.val[1].text, top.section[2])

\* C22: a heading-styled line that is only a small page number is skipped by
\* itself: the scan goes on with the next line of the same block, and key,
\* value, flag, stop and skip are what they were.
C22_FolioLineAloneIsSkipped ==
    [][ scanning_line =>
        \A got \in { get_span(line_at_hand) } :
           folio_at_hand(got)
           => /\ Len(frames') = Len(frames)
              /\ top_after.pc = "line"
              /\ top_after.pi = top.pi /\ top_after.bi = top.bi
              /\ top_after.li = top.li + 1
              /\ top_after.key = top.key
              /\ top_after.value = top.value
              /\ top_after.flag = top.flag
              /\ top_after.stop = top.stop
              /\ top_after.skip = top.skip ]_vars

\* The step leaves the lines of the block at hand without a test having set
\* skip or stop and without a call: the block is passed over as a caption.
left_as_caption ==
    /\ Len(frames') = Len(frames)
    /\ top_after.pc = "post"
    /\ ~top_after.skip /\ ~top_after.stop
    /\ top_after.key = top.key
    /\ top_after.value = top.value

\* C23: a block that follows an image on its page and whose first span
\* differs from the text in font or size is passed over as a caption at its
\* first line, so that none of its lines adds text; the first block of a
\* page, which no block precedes, is never passed over as a caption.
C23_CaptionFollowsAnImage ==
    [][ scanning_line =>
        \A got \in { get_span(line_at_hand) } :
           ( got.err = "none" /\ got.val # <<>> )
           => /\ ( /\ after_image
                   /\ top.li = 1
                   /\ differs_from_baseline(got.val[1]) )
                 => left_as_caption
              /\ top.bi = 1 => ~left_as_caption ]_vars

\* The step takes the spans for text of the section and goes on to the next
\* line: no test for a heading has turned the scan.
taken_as_text(spans) ==
    /\ Len(frames') = Len(frames)
    /\ top_after.pc = "line"
    /\ top_after.pi = top.pi /\ top_after.bi = top.bi
    /\ top_after.li = top.li + 1
    /\ top_after.key = top.key
    /\ top_after.flag = top.flag
    /\ top_after.stop = top.stop
    /\ top_after.skip = top.skip
    /\ gathered(top_after) =
          IF top.key = <<>> THEN gathered(top)
          ELSE accumulate(gathered(top), spans, 1, top.info.main_size)

\* C24: a line is tested for a heading only when its first span differs from
\* the text in font or size and the line is one of the first four of its
\* block; any other line of a block that is no caption, in particular a line
\* after the fourth whatever its font and size, is taken as text.
C24_OnlyTheFirstFourLinesAreHeadingTested ==
    [][ scanning_line =>
        \A got \in { get_span(line_at_hand) } :
           ( /\ got.err = "none" /\ got.val # <<>>
             /\ block_before(top.pblocks[top.pi], block_at_hand).type # 1
             /\ ~heading_at_hand(got) )
           => taken_as_text(got.val) ]_vars

\* C25: once the title of the first subsection has been matched, the call of
\* line 317 hands its result back to the scan of the parent, and from then on
\* (flag set) no step adds text to the parent's own text, and a heading that
\* matches the title of the parent's next section ends the parent's scan.
C25_SubsectionTextOnlyThroughNestedResult ==
    [][ ( ret.out = Running /\ frames # <<>> )
        => /\ Len(frames) >= 2 => ret'.out.err \in { "running", "none" }
           /\ ( top.flag /\ Len(frames') = Len(frames) )
              => gathered(top_after) = gathered(top)
           /\ ( top.flag /\ scanning_line )
              => \A got \in { get_span(line_at_hand) } :
                    ( /\ heading_at_hand(got)
                      /\ top.next_section # None
                      /\ title_matches(got.val[1].text, top.next_section[2])
                      /\ ~title_matches(got.val[1].text, top.section[2]) )
                    => top_after.stop ]_vars

\* C26: a call of line 317 scans the sections it is handed, and the block
\* position it is handed (that of the caller's block at hand) is where it
\* starts on the first page of the first of them only: every other page, and
\* every page of a later section, is scanned from its first block.
C26_OffsetOnlyOnFirstPageOfFirstChild ==
    [][ ( ret.out = Running /\ Len(frames) >= 2 )
        => /\ ( top.pc = "section" /\ top.si <= Len(top.sections) )
              => /\ ret'.out = Running
                 /\ top_after.pc = "page"
           /\ ( /\ top.pc = "page"
                /\ top.pi <= Len(top.pblocks) /\ ~top.stop )
              => top_after.bi = IF top.si = 1 /\ top.pi = 1
                                THEN frames[Len(frames) - 1].bi
                                ELSE 1 ]_vars

(***************************************************************************)
(* Termination of text_extract, checked under SpecExtract.                 *)
(***************************************************************************)
\* The deepest level of the outline.
deepest_level == Max({ toc[i][1] : i \in 1..Len(toc) } \cup { 0 })

\* In every activation the subsections found for the section at hand lie at
\* deeper levels than the section, an inner activation was handed the
\* subsections of the activation that called it, the section at hand of the
\* caller not among them, and there are no more activations than levels.
levels_deepen ==
    /\ \A k \in 1..Len(frames) :
          /\ frames[k].section # None
             => \A n \in 1..Len(frames[k].subsections) :
                   frames[k].subsections[n][1] > frames[k].section[1]
          /\ k > 1
             => /\ frames[k].sections = frames[k - 1].subsections
                /\ \A n \in 1..Len(frames[k].sections) :
                      /\ frames[k].sections[n][1] > frames[k - 1].section[1]
                      /\ frames[k].sections[n] # frames[k - 1].section
    /\ Len(frames) <= Max({ deepest_level, 1 })

\* Where an activation stands in its loops: the section, the page, the block
\* and the line it has come to, each followed by how far it is with it.
position(f) ==
    CASE f.pc = "enter" -> <<0, 0, 0, 0, 0, 0, 0>>
      [] f.pc = "section" -> <<f.si, 0, 0, 0, 0, 0, 0>>
      [] f.pc = "page" -> <<f.si, 1, f.pi, 0, 0, 0, 0>>
      [] f.pc = "block" -> <<f.si, 1, f.pi, 1, f.bi, 0, 0>>
      [] f.pc = "line" -> <<f.si, 1, f.pi, 1, f.bi, 1, f.li>>
      [] f.pc = "call" -> <<f.si, 1, f.pi, 1, f.bi, 2, 0>>
      [] f.pc = "post" -> <<f.si, 1, f.pi, 1, f.bi, 3, 0>>
      [] f.pc = "return" -> <<f.si, 2, 0, 0, 0, 0, 0>>

\* The positions of the activations, the outermost first.
positions(fs) == Flatten([ k \in 1..Len(fs) |-> position(fs[k]) ])

\* a comes before b in the order of the dictionary.
RECURSIVE comes_before(_, _)
comes_before(a, b) ==
    IF b = <<>> THEN FALSE
    ELSE IF a = <<>> THEN TRUE
    ELSE IF a[1] # b[1] THEN a[1] < b[1]
    ELSE comes_before(Tail(a), Tail(b))

\* No activation stands past the end of the sections it was handed, of the
\* pages of the document, of the blocks of a page or of the lines of a block.
positions_bounded ==
    \A k \in 1..Len(frames) :
       LET f == frames[k]
       IN /\ f.pc \in { "enter", "section", "page", "block", "line", "call",
                        "post", "return" }
          /\ f.si <= Len(f.sections) + 1
          /\ f.pi <= Len(f.pblocks) + 1
          /\ f.pc \in { "block", "line", "call", "post" }
             => /\ f.bi <= Len(f.pblocks[f.pi]) + 1
                /\ f.pc = "line" => f.li <= Len(f.pblocks[f.pi][f.bi].lines) + 1

C28_SingleSizeIsReturned ==
    ( ret.op = "get_main_size" /\ Len(size_ranks) = 1 )
    => ret.out = Ok(size_ranks[1][1])

(***************************************************************************)
(* The cache of summaries and question sets.                               *)
(*                                                                         *)
(* Pipeline (src/app/pipeline.py) keeps an IdlearnCache                    *)
(* (src/app/.ipynb_checkpoints/utils-checkpoint.py), whose data are two    *)
(* dictionaries, "summaries" and "qa", loaded from .cache/cache.json when  *)
(* the Pipeline is made and written back whole by every update.  A         *)
(* dictionary is the sequence of its items in insertion order.  The        *)
(* activation of Pipeline.run is the only element of frames; ret is the    *)
(* call of run and its outcome.                                            *)
(***************************************************************************)

\* The section titles text_extract can return as keys of text_dict.
CacheKeys == { Introduction, Methods }

\* The values text_extract can return: the keys in the order of extraction.
TextDicts ==
    { <<>> } \cup { << a >> : a \in CacheKeys }
             \cup { pair \in CacheKeys \X CacheKeys : pair[1] # pair[2] }

\* What a request to the language model server can do: answer, or raise
\* because the server just spawned by LLMModel.call is not listening yet.
GenerateOutcomes == { "response", "ConnectionError" }

\* dict.keys()
keys(d) == { d[n].key : n \in 1..Len(d) }

\* IdlearnCache.load on a cache whose data are given: the content of the
\* file replaces them, and a missing file leaves them.
load(data, file) == IF file = <<>> THEN data ELSE file[1]

\* IdlearnCache.__init__: empty dictionaries, then load.
IdlearnCache(file) == load([summaries |-> <<>>, qa |-> <<>>], file)

\* IdlearnCache.update_summary and update_qa, before their save.
update_summary(data, section, summary) ==
    [data EXCEPT !.summaries = setitem(@, section, summary)]

update_qa(data, section, qa) ==
    [data EXCEPT !.qa = setitem(@, section, qa)]

\* IdlearnCache.save: what the file holds afterwards.
save(data) == << data >>

\* write_markdown: one heading per key of sum_dict, with q_dict[key] read
\* for each; the result is the list of the sections written.
RECURSIVE write_markdown_loop(_, _, _, _)
write_markdown_loop(sum_dict, q_dict, n, written) ==
    IF n > Len(sum_dict) THEN Ok(written)
    ELSE IF sum_dict[n].key \notin keys(q_dict) THEN Raise("KeyError")
    ELSE write_markdown_loop(sum_dict, q_dict, n + 1,
                             Append(written, sum_dict[n].key))

write_markdown(sum_dict, q_dict) ==
    write_markdown_loop(sum_dict, q_dict, 1, <<>>)

\* Where run stands after the question set of the section numbered n.
after_section(text_dict, n) ==
    IF n < Len(text_dict)
    THEN [pc |-> "summary", text_dict |-> text_dict, n |-> n + 1]
    ELSE [pc |-> "write", text_dict |-> text_dict, n |-> n]

InitCache ==
    /\ doc = [toc |-> <<>>, page_count |-> 1]
    /\ toc = <<>>
    /\ ret = NoCall
    /\ frames = <<>>
    /\ disk = <<>>
    /\ app = [pipeline |-> [cache |-> [data |-> IdlearnCache(<<>>)]]]

\* Pipeline.__init__, lines 27..34: a Pipeline is made, by make_openfile or
\* by a new start of the program, whatever an earlier one was doing.
Pipeline_init ==
    /\ app' = [pipeline |-> [cache |-> [data |-> IdlearnCache(disk)]]]
    /\ ret' = NoCall
    /\ frames' = <<>>
    /\ UNCHANGED <<doc, toc, disk>>

\* Pipeline.run, lines 37..57: text_extract has returned text_dict.
Call_run(text_dict) ==
    /\ ret.out # Running
    /\ ret' = [op |-> "run", pos |-> 0, arg |-> text_dict, out |-> Running]
    /\ frames' = << after_section(text_dict, 0) >>
    /\ UNCHANGED <<doc, toc, app, disk>>

\* Lines 61..66: the summary of the section at hand.
SummaryStep ==
    /\ ret.op = "run" /\ ret.out = Running
    /\ frames[1].pc = "summary"
    /\ LET key == frames[1].text_dict[frames[1].n]
           data == app.pipeline.cache.data
       IN  IF key \in keys(data.summaries)
           THEN /\ frames' = << [frames[1] EXCEPT !.pc = "qa"] >>
                /\ UNCHANGED <<ret, app, disk>>
           ELSE \E outcome \in GenerateOutcomes :
                  IF outcome = "response"
                  THEN \E updated \in { update_summary(data, key, "summary") } :
                         /\ app' = [app EXCEPT !.pipeline.cache.data = updated]
                         /\ disk' = save(updated)
                         /\ frames' = << [frames[1] EXCEPT !.pc = "qa"] >>
                         /\ UNCHANGED ret
                  ELSE /\ ret' = [ret EXCEPT !.out = Raise(outcome)]
                       /\ frames' = <<>>
                       /\ UNCHANGED <<app, disk>>
    /\ UNCHANGED <<doc, toc>>

\* Lines 68..73: the question set of the section at hand.
QaStep ==
    /\ ret.op = "run" /\ ret.out = Running
    /\ frames[1].pc = "qa"
    /\ LET key == frames[1].text_dict[frames[1].n]
           data == app.pipeline.cache.data
           next == after_section(frames[1].text_dict, frames[1].n)
       IN  IF key \in keys(data.qa)
           THEN /\ frames' = << next >>
                /\ UNCHANGED <<ret, app, disk>>
           ELSE \E outcome \in GenerateOutcomes :
                  IF outcome = "response"
                  THEN \E updated \in { update_qa(data, key, "qa") } :
                         /\ app' = [app EXCEPT !.pipeline.cache.data = updated]
                         /\ disk' = save(updated)
                         /\ frames' = << next >>
                         /\ UNCHANGED ret
                  ELSE /\ ret' = [ret EXCEPT !.out = Raise(outcome)]
                       /\ frames' = <<>>
                       /\ UNCHANGED <<app, disk>>
    /\ UNCHANGED <<doc, toc>>

\* Lines 75..86: the Markdown file is written from the two dictionaries of
\* the cache; the cards are made from qa_dict alone.
WriteStep ==
    /\ ret.op = "run" /\ ret.out = Running
    /\ frames[1].pc = "write"
    /\ ret' = [ret EXCEPT !.out =
                 write_markdown(app.pipeline.cache.data.summaries,
                                app.pipeline.cache.data.qa)]
    /\ frames' = <<>>
    /\ UNCHANGED <<doc, toc, app, disk>>

NextCache ==
    \/ Pipeline_init
    \/ \E text_dict \in TextDicts : Call_run(text_dict)
    \/ SummaryStep
    \/ QaStep
    \/ WriteStep

SpecCache == InitCache /\ [][NextCache]_vars

(***************************************************************************)
(* Properties of the cache, checked under SpecCache.                       *)
(***************************************************************************)

\* run is about to call write_markdown.
reaches_write_markdown ==
    /\ ret.op = "run" /\ ret.out = Running
    /\ frames[1].pc = "write"

\* C29: when Pipeline.run reaches write_markdown, every section that has a
\* summary in the cache has a question set in the cache, whatever earlier
\* runs left in the cache file, and the lookup made by the writer for each
\* summarised section does not fail.
C29_EverySummaryHasItsQuestions ==
    /\ reaches_write_markdown
         => keys(app.pipeline.cache.data.summaries)
              \subseteq keys(app.pipeline.cache.data.qa)
    /\ ~(ret.op = "run" /\ ret.out = Raise("KeyError"))

\* The case of C29: the file was left by a run that stopped between
\* update_summary and update_qa, a new Pipeline loaded it, and run reached
\* write_markdown over another section.
C29_Case ==
    /\ reaches_write_markdown
    /\ frames[1].text_dict = << Methods >>
    /\ disk # <<>>
    /\ Introduction \in keys(disk[1].summaries)
    /\ Introduction \notin keys(disk[1].qa)

\* What holds of the code: the sections of the present run have both.
C29_SectionsOfThisRunHaveBoth ==
    reaches_write_markdown =>
        \A n \in 1..Len(frames[1].text_dict) :
            /\ frames[1].text_dict[n] \in keys(app.pipeline.cache.data.summaries)
            /\ frames[1].text_dict[n] \in keys(app.pipeline.cache.data.qa)

(***************************************************************************)
(* The selection of the sections in the window.                            *)
(*                                                                         *)
(* IdlearnApp (src/app/gui.py) is the window: filename and outfolder are   *)
(* None, << >>, until chosen; cards is the variable of the "Anki cards"    *)
(* checkbox; metadata_frame holds sections, the list given to              *)
(* Pipeline.run, and toc_section, one checkbox per entry of the outline of *)
(* the loaded document, in the order of the outline.  A checkbox is its    *)
(* text, its command and its variable; a click on it turns the variable    *)
(* and then calls the command when there is one.  ret is the last call of  *)
(* make_run with the list it handed to Pipeline.run.                       *)
(***************************************************************************)

\* The files the user can choose.
GuiDocuments ==
    { [toc |-> TwoChapters, page_count |-> 2],
      [toc |-> LastChapterWithParts, page_count |-> 2] }

\* MetadataFrame.add_section, lines 89..93.
add_section(sections, section) ==
    IF section \notin Range(sections)
    THEN Append(sections, section)
    ELSE LET at == index(sections, section)
         IN  SubSeq(sections, 1, at - 1) \o SubSeq(sections, at + 1, Len(sections))

\* MetadataFrame.create_toc_selection, lines 73..86, from entry n on:
\* add_section(sec) is called while the checkbox is made, and what it
\* returns, None, is the command of the checkbox.
RECURSIVE create_toc_selection_loop(_, _, _)
create_toc_selection_loop(frame, entries, n) ==
    IF n > Len(entries) THEN frame
    ELSE create_toc_selection_loop(
           [ sections |-> add_section(frame.sections, entries[n]),
             toc_section |-> Append(frame.toc_section,
                                    [ text |-> entries[n][2],
                                      command |-> None,
                                      variable |-> "off" ]) ],
           entries, n + 1)

create_toc_selection(frame, chosen) ==
    create_toc_selection_loop(frame, get_toc(chosen), 1)

\* IdlearnApp.check_cards, lines 179..183.
check_cards(cards) == cards = "on"

\* The other value of the variable of a checkbox.
turned(variable) == IF variable = "on" THEN "off" ELSE "on"

\* IdlearnApp.__init__ and MetadataFrame.__init__.
InitGui ==
    /\ doc = [toc |-> <<>>, page_count |-> 1]
    /\ toc = <<>>
    /\ ret = NoCall
    /\ frames = <<>>
    /\ disk = <<>>
    /\ app = [ pipeline |-> <<>>,
               filename |-> <<>>,
               outfolder |-> <<>>,
               cards |-> "off",
               metadata_frame |-> [sections |-> <<>>, toc_section |-> <<>>] ]

\* IdlearnApp.make_openfile, lines 151..160, the user choosing a document.
make_openfile(chosen) ==
    /\ app' = [ app EXCEPT
                  !.filename = << chosen >>,
                  !.pipeline = << [ doc |-> chosen,
                                    output_folder |-> app.outfolder,
                                    cards |-> check_cards(app.cards) ] >>,
                  !.metadata_frame =
                      create_toc_selection(
                          [ sections |-> app.metadata_frame.sections,
                            toc_section |-> <<>> ],
                          chosen) ]
    /\ UNCHANGED <<doc, toc, ret, frames, disk>>

\* IdlearnApp.make_outfolder, lines 163..166.
make_outfolder ==
    /\ app' = [app EXCEPT !.outfolder = << "folder" >>]
    /\ UNCHANGED <<doc, toc, ret, frames, disk>>

\* A click on the checkbox of entry n of the outline: its variable turns,
\* and its command, None, is not called.
click_section(n) ==
    /\ n \in 1..Len(app.metadata_frame.toc_section)
    /\ LET checkbox == app.metadata_frame.toc_section[n]
       IN  app' = [ app EXCEPT
                      !.metadata_frame.toc_section[n].variable =
                          turned(checkbox.variable),
                      !.metadata_frame.sections =
                          IF checkbox.command = None THEN @
                          ELSE add_section(@, get_toc(app.pipeline[1].doc)[n]) ]
    /\ UNCHANGED <<doc, toc, ret, frames, disk>>

\* A click on the "Anki cards" checkbox, made with command=None.
click_cards ==
    /\ app' = [app EXCEPT !.cards = turned(@)]
    /\ UNCHANGED <<doc, toc, ret, frames, disk>>

\* IdlearnApp.make_run, lines 169..176: Pipeline.run is called with the
\* sections of the frame, or a window asks for what is missing.
make_run ==
    /\ ret' = IF app.filename = <<>>
              THEN [op |-> "open_toplevel", pos |-> 0,
                    arg |-> None, out |-> Ok("Select input file")]
              ELSE IF app.outfolder = <<>>
              THEN [op |-> "open_toplevel", pos |-> 0,
                    arg |-> None, out |-> Ok("Select output folder")]
              ELSE [op |-> "run", pos |-> 0,
                    arg |-> app.metadata_frame.sections, out |-> Running]
    /\ UNCHANGED <<doc, toc, frames, app, disk>>

NextGui ==
    \/ \E chosen \in GuiDocuments : make_openfile(chosen)
    \/ make_outfolder
    \/ \E n \in 1..Len(app.metadata_frame.toc_section) : click_section(n)
    \/ click_cards
    \/ make_run

SpecGui == InitGui /\ [][NextGui]_vars

(***************************************************************************)
(* Properties of the selection, checked under SpecGui.                     *)
(***************************************************************************)

\* The entries of the outline whose checkbox is checked.
checked_entries ==
    { get_toc(app.pipeline[1].doc)[n] :
        n \in { m \in 1..Len(app.metadata_frame.toc_section) :
                  app.metadata_frame.toc_section[m].variable = "on" } }

\* C30: the sections handed to Pipeline.run are the entries of the outline
\* whose checkbox is checked: none right after a document is loaded, each
\* click on a checkbox turns the membership of its entry and of no other,
\* and no entry of a document loaded before is among them.
C30_SectionsAreTheCheckedEntries ==
    app.pipeline # <<>> =>
        /\ Range(app.metadata_frame.sections) = checked_entries
        /\ (ret.op = "run" /\ ret.arg = app.metadata_frame.sections)
             => Range(ret.arg) = checked_entries

\* The case of C30: a document is loaded, nothing was clicked, and make_run
\* has handed the sections of the frame to run.
C30_Case ==
    /\ app.pipeline # <<>>
    /\ ret.op = "run"
    /\ ret.arg = app.metadata_frame.sections
    /\ checked_entries = {}
    /\ Range(ret.arg) = Range(get_toc(app.pipeline[1].doc))

\* What holds of the code: only the loading of a document changes the
\* sections, and no click on a checkbox does.
C30_OnlyLoadingChangesTheSections ==
    [][ /\ app'.metadata_frame.sections # app.metadata_frame.sections
          => \E chosen \in GuiDocuments : make_openfile(chosen)
        /\ (\E n \in 1..Len(app.metadata_frame.toc_section) : click_section(n))
             => app'.metadata_frame.sections = app.metadata_frame.sections ]_vars

\* After a second document is loaded the entries of the first are all
\* among the sections, and after the first is loaded again none of its
\* entries is.
C30_EntriesOfThePreviousDocumentStay ==
    /\ app.pipeline # <<>>
    /\ app.pipeline[1].doc.toc = LastChapterWithParts
    /\ Range(get_toc([toc |-> TwoChapters, page_count |-> 2]))
         \subseteq Range(app.metadata_frame.sections)

====
